---- MODULE Spec2Model ----
(***************************************************************************)
(* CopyCanvas: the history controller of App.tsx, the CanvasBoard surface  *)
(* handle with its redraw-on-objects-change effect, the object list of     *)
(* useCanvasObjects and the IndexedDB page / history store.                *)
(*                                                                         *)
(* One action is one event-loop task: the synchronous segment of a handler *)
(* up to its next real suspension (image decode, IndexedDB request),       *)
(* together with the React render that the segment's state updates cause   *)
(* and the passive effects of that render.  A handler that is suspended is *)
(* a record in `tasks` holding its position and the values its closure     *)
(* captured when it was invoked.                                           *)
(*                                                                         *)
(* A snapshot value is a record: k = "png" is the string produced by       *)
(* canvas.toDataURL (px = the marks visible on the surface), k = "handle"  *)
(* is the object {dataUrl, objects} returned by the imperative handle's    *)
(* getDataUrl, k = "null" is null.  IndexedDB requests take effect in the  *)
(* order in which they are issued, so a write is applied to the store in   *)
(* the step that issues it and a read returns the store of the step that   *)
(* issues it; the handler resumes in a later step.                         *)
(***************************************************************************)
EXTENDS Integers, Sequences, FiniteSets, TLC

\* ---------------------------------------------------------------- bounds
MaxObjs == 2
MaxPageIds == 3
MaxEvents == 6
MaxOverlapEvents == 4
MaxTasks == 2
MaxFullEvents == 3
MaxPoint == 2
MaxStrokeLen == 2
MaxGestureEvents == 5
MaxHitObjs == 2
MaxPenSamples == 4

\* ------------------------------------------------------ program constants
\* pointer pressures are fixed-point numbers: PenUnit is the pressure 1.0, and
\* it has enough decimals for MaxPenSamples weighted averages to be exact
PenUnit == 10 ^ (MaxPenSamples + 2)

\* useCanvasDrawing: the refs after construction and during mouse input
\* (lastPressureRef = 0.5, pointCountRef = 0)
MousePen == [last |-> PenUnit \div 2, count |-> 0, type |-> "mouse", enabled |-> TRUE]

HistoryCap == 50
MAX_HISTORY_PER_PAGE == 50

Tools == {"brush", "eraser-object"}

\* types/canvas.ts ToolType
ShapeTools == {"line", "rectangle", "circle"}

StrokeTools == {"brush", "eraser-normal"}

AllTools == StrokeTools \cup {"eraser-object"} \cup ShapeTools

\* pointer positions
Points == 1..MaxPoint

\* the one pointer position used where positions do not matter
MainPoints == {1}

VARIABLES
    pages,          \* App: useState<Page[]>, sequence of [id, dataUrl]
    activePageId,   \* App: useState activePageId
    history,        \* App: undo stack
    redoStack,      \* App: redo stack
    objects,        \* useCanvasObjects: canonical object list
    currentObject,  \* useCanvasObjects: currentObjectRef
    surface,        \* the pixels of the main canvas, as the set of marks shown
    overlay,        \* the pixels of the overlay canvas: the shape previews shown
    boardDrawing,   \* CanvasBoard: drawingRef
    shapeDrawing,   \* useCanvasShapes: drawingRef
    strokeDrawing,  \* useCanvasDrawing: drawingRef
    activeTool,     \* App: activeTool
    pointer,        \* environment: a pointer is pressed
    dbPages,        \* IndexedDB pages store: page id -> dataUrl
    dbHistory,      \* IndexedDB history store, in insertion order
    tasks,          \* suspended asynchronous handlers
    nextPage,       \* next fresh page id (makePageId)
    nextObj,        \* next fresh object id (crypto.randomUUID)
    events,         \* number of user events so far
    overlap,        \* whether user events may arrive while handlers are suspended
    ctxReady,       \* useCanvasContext: ctxRef holds the 2d context
    storageOk,      \* environment: IndexedDB accepts writes (no quota or I/O error)
    pen,            \* useCanvasDrawing: lastPressureRef, pointCountRef; the pointer's type
    ev,             \* label of the last step
    obs             \* observer: the state before the last undo() / redo()

vars == <<pages, activePageId, history, redoStack, objects, currentObject,
          surface, overlay, boardDrawing, shapeDrawing, strokeDrawing, activeTool, pointer, dbPages,
          dbHistory, tasks, nextPage, nextObj, events, overlap, ctxReady, storageOk,
          pen, ev, obs>>

\* ------------------------------------------------------------- snapshots
\* pg is not program data: it records the page that was active when the
\* snapshot was taken, so that properties can tell whose content a snapshot is
Png(px, pg) == [k |-> "png", px |-> px, objs |-> <<>>, pg |-> pg]

Handle(px, objs, pg) == [k |-> "handle", px |-> px, objs |-> objs, pg |-> pg]

NullUrl == [k |-> "null", px |-> {}, objs |-> <<>>, pg |-> 0]

\* currentObjectRef.current = null
NoObj == [id |-> 0, type |-> "none", points |-> <<>>, erase |-> FALSE]


\* JavaScript truthiness of a dataUrl value
Truthy(url) == url.k # "null"

\* utils/canvas.ts loadImage: only a data-URL string decodes
LoadKind(url) ==
    IF ~Truthy(url) THEN "null" ELSE IF url.k = "png" THEN "img" ELSE "imgfail"

\* renderObjects on a cleared canvas: an object is drawn when it has at least
\* two points (a stroke with fewer returns early, a shape needs both corners);
\* the pixels are abstracted to the set of the objects drawn
Render(objs) == {objs[i].id : i \in {j \in DOMAIN objs : Len(objs[j].points) >= 2}}

\* --------------------------------------------------------------- helpers
PageIds(pgs) == {pgs[i].id : i \in DOMAIN pgs}

SetUrl(pgs, id, url) ==
    [i \in DOMAIN pgs |-> IF pgs[i].id = id THEN [pgs[i] EXCEPT !.dataUrl = url]
                          ELSE pgs[i]]

UrlOf(pgs, id) ==
    IF id \in PageIds(pgs)
    THEN (CHOOSE p \in {pgs[i] : i \in DOMAIN pgs} : p.id = id).dataUrl
    ELSE NullUrl

RemoveAt(s, i) == SubSeq(s, 1, i - 1) \o SubSeq(s, i + 1, Len(s))

Upsert(db, id, url) ==
    [x \in (DOMAIN db) \cup {id} |-> IF x = id THEN url ELSE db[x]]

\* ------------------------------------------------- history stack trimming
\* App.tsx pushSnapshot: next.length > 50 ? next.slice(next.length - 50) : next
Trim(s) == IF Len(s) > HistoryCap THEN SubSeq(s, Len(s) - HistoryCap + 1, Len(s)) ELSE s

\* App.tsx handleUndo: [nextRedo, ...prev].slice(0, 50)
CapHead(s) == IF Len(s) > HistoryCap THEN SubSeq(s, 1, HistoryCap) ELSE s

\* App.tsx handleRedo: [...prev, next].slice(-50)
CapTail(s) == IF Len(s) > HistoryCap THEN SubSeq(s, Len(s) - HistoryCap + 1, Len(s)) ELSE s

\* variant of CanUndo that lets the base entry be undone
CanUndo_Loose(h) == Len(h) > 0

\* App.tsx: canUndo and the guard of handleUndo (history.length <= 1 returns)
CanUndo(h) == Len(h) > 1

\* App.tsx: canRedo and the guard of handleRedo (redoStack.length === 0 returns)
CanRedo(r) == Len(r) > 0

\* --------------------------------------------------------- history store
MaxSeq(db) == IF db = <<>> THEN 0
              ELSE CHOOSE m \in {db[i].seq : i \in DOMAIN db} :
                       \A i \in DOMAIN db : db[i].seq <= m

\* entries.sort((a, b) => a.index - b.index): a stable sort, so entries of one
\* index keep their order
SortByIndex(s) ==
    LET rank == [i \in DOMAIN s |->
                    Cardinality({j \in DOMAIN s :
                        \/ s[j].index < s[i].index
                        \/ (s[j].index = s[i].index /\ j <= i)})]
    IN  [k \in 1..Len(s) |-> s[CHOOSE i \in DOMAIN s : rank[i] = k]]

\* IndexedDBManager.getHistory: the entries of the page, sorted by index
GetHistory(db, pid) ==
    LET sel(e) == e.pageId = pid
    IN  SortByIndex(SelectSeq(db, sel))

\* variant of CleanupHistory that deletes from the end of getHistory
CleanupHistory_Newest(db, pid) ==
    LET entries == GetHistory(db, pid)
        n == Len(entries)
        drop == IF n > MAX_HISTORY_PER_PAGE
                THEN {entries[i].seq : i \in (MAX_HISTORY_PER_PAGE + 1)..n}
                ELSE {}
        keep(e) == e.seq \notin drop
    IN  SelectSeq(db, keep)

\* IndexedDBManager.cleanupHistory: keep the last MAX_HISTORY_PER_PAGE of getHistory
CleanupHistory(db, pid) ==
    LET entries == GetHistory(db, pid)
        n == Len(entries)
        drop == IF n > MAX_HISTORY_PER_PAGE
                THEN {entries[i].seq : i \in 1..(n - MAX_HISTORY_PER_PAGE)}
                ELSE {}
        keep(e) == e.seq \notin drop
    IN  SelectSeq(db, keep)

\* IndexedDBManager.saveHistory, the put: seq stands for the entry's key
\* `${pageId}-${index}-${Date.now()}`, which orders entries of one index by time
PutHistory(db, pid, url, idx) ==
    Append(db, [pageId |-> pid, dataUrl |-> url, index |-> idx,
                seq |-> MaxSeq(db) + 1])

\* IndexedDBManager.saveHistory for a page that has no entry yet: the put and
\* the cleanup, which then finds nothing to delete
SaveHistory(db, pid, url, idx) == CleanupHistory(PutHistory(db, pid, url, idx), pid)

\* variant of DeleteHistoryOf that deletes the first entry the cursor finds
DeleteHistoryOf_First(db, pid) ==
    LET first == IF GetHistory(db, pid) = <<>> THEN 0
                 ELSE GetHistory(db, pid)[1].seq
        keep(e) == e.seq # first
    IN  SelectSeq(db, keep)

\* IndexedDBManager.deletePage: the page and every history entry of it
DeleteHistoryOf(db, pid) ==
    LET keep(e) == e.pageId # pid
    IN  SelectSeq(db, keep)

\* ------------------------------------------------------------ the world
\* The mutable program state as one record, so that the parts of one step
\* (handler segment, render, effect, commit) compose as functions.
Cur == [pages |-> pages, activePageId |-> activePageId, history |-> history,
        redoStack |-> redoStack, objects |-> objects,
        currentObject |-> currentObject, surface |-> surface,
        overlay |-> overlay,
        dbPages |-> dbPages, dbHistory |-> dbHistory, tasks |-> tasks,
        storageOk |-> storageOk]

Set(W) ==
    /\ pages' = W.pages
    /\ activePageId' = W.activePageId
    /\ history' = W.history
    /\ redoStack' = W.redoStack
    /\ objects' = W.objects
    /\ currentObject' = W.currentObject
    /\ surface' = W.surface
    /\ overlay' = W.overlay
    /\ dbPages' = W.dbPages
    /\ dbHistory' = W.dbHistory
    /\ tasks' = W.tasks

Task(kind, pc, pid, url, idx, sq, ok) ==
    [kind |-> kind, pc |-> pc, pid |-> pid, url |-> url, idx |-> idx,
     sq |-> sq, ok |-> ok]

\* variant of PushSnapshot that keeps the stacks and the page list as they
\* were when the store does not accept the save
PushSnapshot_Rollback(W, d) ==
    LET h == Trim(Append(W.history, d))
        ok == W.activePageId \in PageIds(W.pages)
    IN  IF ~W.storageOk THEN W
        ELSE [W EXCEPT !.history = h,
                       !.redoStack = <<>>,
                       !.pages = SetUrl(@, W.activePageId, d),
                       !.dbPages = IF ok THEN Upsert(@, W.activePageId, d) ELSE @,
                       !.tasks = IF ok
                                 THEN Append(@, Task("persist", "saved",
                                                     W.activePageId, d, Len(h) - 1,
                                                     <<>>, TRUE))
                                 ELSE @]

\* App.tsx pushSnapshot (called through handleCommit): the in-memory part and
\* the issue of savePage; saveHistory is issued when savePage has completed,
\* and the catch block runs when it was rejected.
PushSnapshot(W, d) ==
    LET h == Trim(Append(W.history, d))
        ok == W.activePageId \in PageIds(W.pages)
    IN  [W EXCEPT !.history = h,
                  !.redoStack = <<>>,
                  !.pages = SetUrl(@, W.activePageId, d),
                  !.dbPages = IF ok /\ W.storageOk
                              THEN Upsert(@, W.activePageId, d) ELSE @,
                  !.tasks = IF ok
                            THEN Append(@, Task("persist",
                                                IF W.storageOk THEN "saved"
                                                ELSE "rejected",
                                                W.activePageId, d, Len(h) - 1,
                                                <<>>, TRUE))
                            ELSE @]

\* CanvasBoard commitSnapshot: canvas.toDataURL handed to onCommit
CommitSnapshot(W) == PushSnapshot(W, Png(W.surface, W.activePageId))

\* CanvasBoard redraw effect, run after a render in which `objects` changed
Redraw(W, drawing) ==
    LET W1 == [W EXCEPT !.surface = Render(W.objects)]
    IN  IF ~ctxReady THEN W
        ELSE IF drawing THEN W1 ELSE CommitSnapshot(W1)

\* useCanvasObjects clearObjects followed by the clearRect of loadPixels / clearPixels
ClearForLoad(W) ==
    [W EXCEPT !.objects = <<>>, !.currentObject = NoObj, !.surface = {}]

\* useCanvasImage loadFromDataUrl after the image decoded: drawImage onto the canvas
DrawImage(W, url) == [W EXCEPT !.surface = @ \cup url.px]

\* the handle's getDataUrl: {dataUrl: canvas.toDataURL(), objects: serializeObjects()}
GetDataUrl(W, renderedObjects) == Handle(W.surface, renderedObjects, W.activePageId)

\* ------------------------------------------------------------- observer
NoObs == [op |-> "none", done |-> FALSE, paired |-> FALSE,
          h |-> <<>>, r |-> <<>>, s |-> {}, u |-> NullUrl,
          ph |-> <<>>, pr |-> <<>>, ps |-> {}, start |-> 0, updates |-> 0,
          over |-> {}, arg |-> 0, result |-> 0,
          objs |-> <<>>, pts |-> <<>>, tool |-> "none"]

ObsStart(op, isDone) ==
    IF overlap THEN NoObs ELSE
    LET follows == op = "redo" /\ obs.op = "undo" /\ obs.done /\ CanUndo(obs.h)
    IN  [op |-> op, done |-> isDone, paired |-> follows,
         h |-> history, r |-> redoStack, s |-> surface,
         u |-> UrlOf(pages, activePageId),
         ph |-> IF follows THEN obs.h ELSE <<>>,
         pr |-> IF follows THEN obs.r ELSE <<>>,
         ps |-> IF follows THEN obs.s ELSE {}, start |-> 0, updates |-> 0,
         over |-> {}, arg |-> 0, result |-> 0,
          objs |-> <<>>, pts |-> <<>>, tool |-> "none"]

\* ----------------------------------------------------------------- Init
BlankHandle == Handle({}, <<>>, 1)

InitCommon ==
    /\ pages = <<[id |-> 1, dataUrl |-> NullUrl]>>
    /\ activePageId = 1
    /\ history = <<BlankHandle>>
    /\ redoStack = <<>>
    /\ objects = <<>>
    /\ currentObject = NoObj
    /\ surface = {}
    /\ overlay = {}
    /\ boardDrawing = FALSE
    /\ shapeDrawing = FALSE
    /\ strokeDrawing = FALSE
    /\ activeTool \in Tools
    /\ pointer = FALSE
    /\ dbPages = [x \in {1} |-> BlankHandle]
    /\ dbHistory = <<[pageId |-> 1, dataUrl |-> BlankHandle, index |-> 0, seq |-> 1]>>
    /\ tasks = <<>>
    /\ nextPage = 2
    /\ nextObj = 1
    /\ ctxReady = TRUE
    /\ storageOk = TRUE
    /\ pen = MousePen
    /\ events = 0
    /\ ev = "init"
    /\ obs = NoObs

Init == InitCommon /\ overlap = FALSE

InitOverlap == InitCommon /\ overlap = TRUE

\* a user event may be delivered
UserOK ==
    IF overlap
    THEN events < MaxOverlapEvents /\ Len(tasks) < MaxTasks
    ELSE events < MaxEvents /\ tasks = <<>>

User(label) ==
    /\ events' = events + 1
    /\ ev' = label
    /\ UNCHANGED <<overlap, ctxReady, storageOk, pen>>

Internal(label) ==
    /\ ev' = label
    /\ UNCHANGED <<overlap, ctxReady, storageOk, pen, events>>

Board == <<boardDrawing, shapeDrawing, strokeDrawing, activeTool, pointer>>

Ids == <<nextPage, nextObj>>

\* ------------------------------------------------------------ persistence
\* pushSnapshot after `await savePage`: saveHistory(activePageId, dataUrl, index)
\* puts the entry
PersistSaved(i) ==
    /\ tasks[i].kind = "persist" /\ tasks[i].pc = "saved"
    /\ Set([Cur EXCEPT !.dbHistory = IF storageOk
                                      THEN PutHistory(@, tasks[i].pid, tasks[i].url,
                                                      tasks[i].idx)
                                      ELSE @,
                       !.tasks[i].pc = "put"])
    /\ Internal("persistPut")
    /\ UNCHANGED <<Board, Ids, obs>>

\* saveHistory after the put committed: cleanupHistory
PersistCleanup(i) ==
    /\ tasks[i].kind = "persist" /\ tasks[i].pc = "put"
    /\ Set([Cur EXCEPT !.dbHistory = IF storageOk
                                      THEN CleanupHistory(@, tasks[i].pid) ELSE @,
                       !.tasks = RemoveAt(@, i)])
    /\ Internal("persistDone")
    /\ UNCHANGED <<Board, Ids, obs>>

\* ------------------------------------------------------------------ undo
UndoNoop ==
    /\ UserOK
    /\ ~CanUndo(history)
    /\ obs' = ObsStart("undo", TRUE)
    /\ User("undoNoop")
    /\ UNCHANGED <<pages, activePageId, history, redoStack, objects,
                   currentObject, surface, overlay, dbPages, dbHistory, tasks, Board, Ids>>

\* handleUndo up to `await loadFromDataUrl(target)`, then render and effect
UndoStart ==
    /\ UserOK
    /\ CanUndo(history)
    /\ LET nextRedo == history[Len(history)]
           nextHistory == SubSeq(history, 1, Len(history) - 1)
           target == IF nextHistory = <<>> THEN NullUrl
                     ELSE nextHistory[Len(nextHistory)]
           W1 == [Cur EXCEPT !.history = nextHistory,
                             !.redoStack = CapHead(<<nextRedo>> \o @)]
           W2 == Redraw(ClearForLoad(W1), boardDrawing)
           t == Task("undo", LoadKind(target), activePageId, target, 0, <<>>,
                     activePageId \in PageIds(pages))
       IN  Set([W2 EXCEPT !.tasks = Append(@, t)])
    /\ obs' = ObsStart("undo", FALSE)
    /\ User("undo")
    /\ UNCHANGED <<Board, Ids>>

\* handleUndo after the image loaded: drawImage, setPages, savePage in a try
\* block whose catch only logs
UndoLoaded(W, i) ==
    LET t == W.tasks[i]
        W1 == DrawImage(W, t.url)
    IN  [W1 EXCEPT !.pages = SetUrl(@, t.pid, t.url),
                   !.dbPages = IF t.ok /\ W.storageOk
                               THEN Upsert(@, t.pid, t.url) ELSE @,
                   !.tasks = RemoveAt(@, i)]

UndoImg(i) ==
    /\ tasks[i].kind = "undo" /\ tasks[i].pc \in {"img", "null"}
    /\ Set(UndoLoaded(Cur, i))
    /\ obs' = IF obs.op = "undo" THEN [obs EXCEPT !.done = TRUE] ELSE obs
    /\ Internal("undoDone")
    /\ UNCHANGED <<Board, Ids>>

\* ------------------------------------------------------------------ redo
RedoNoop ==
    /\ UserOK
    /\ ~CanRedo(redoStack)
    /\ obs' = ObsStart("redo", TRUE)
    /\ User("redoNoop")
    /\ UNCHANGED <<pages, activePageId, history, redoStack, objects,
                   currentObject, surface, overlay, dbPages, dbHistory, tasks, Board, Ids>>

\* handleRedo up to `await loadFromDataUrl(next)`, then render and effect
RedoStart ==
    /\ UserOK
    /\ CanRedo(redoStack)
    /\ LET next == Head(redoStack)
           rest == Tail(redoStack)
           W2 == Redraw(ClearForLoad(Cur), boardDrawing)
           t == Task("redo", LoadKind(next), activePageId, next, 0, rest,
                     activePageId \in PageIds(pages))
       IN  Set([W2 EXCEPT !.tasks = Append(@, t)])
    /\ obs' = ObsStart("redo", FALSE)
    /\ User("redo")
    /\ UNCHANGED <<Board, Ids>>

\* handleRedo after the image loaded: drawImage, the three state updates,
\* savePage in a try block whose catch only logs
RedoLoaded(W, i) ==
    LET t == W.tasks[i]
        W1 == DrawImage(W, t.url)
    IN  [W1 EXCEPT !.history = CapTail(Append(@, t.url)),
                   !.redoStack = t.sq,
                   !.pages = SetUrl(@, t.pid, t.url),
                   !.dbPages = IF t.ok /\ W.storageOk
                               THEN Upsert(@, t.pid, t.url) ELSE @,
                   !.tasks = RemoveAt(@, i)]

RedoImg(i) ==
    /\ tasks[i].kind = "redo" /\ tasks[i].pc = "img"
    /\ Set(RedoLoaded(Cur, i))
    /\ obs' = IF obs.op = "redo" THEN [obs EXCEPT !.done = TRUE] ELSE obs
    /\ Internal("redoDone")
    /\ UNCHANGED <<Board, Ids>>


\* loadImage rejected (the source is not a data-URL string): the awaiting
\* handler ends with the rejection and nothing after its await runs
TaskImgFail(i) ==
    /\ tasks[i].pc = "imgfail"
    /\ Set([Cur EXCEPT !.tasks = RemoveAt(@, i)])
    /\ Internal("imgFail")
    /\ UNCHANGED <<Board, Ids, obs>>

\* ---------------------------------------------------------- object store
\* variant of StartObject that also puts the new object into the list
StartObject_InList(W, type, p, erase, id) ==
    LET o == [id |-> id, type |-> type, points |-> <<p>>, erase |-> erase]
    IN  [W EXCEPT !.currentObject = o, !.objects = Append(@, o)]

\* useCanvasObjects startObject: a new object with the one point, put in the
\* in-progress slot whatever the slot held
StartObject(W, type, p, erase, id) ==
    [W EXCEPT !.currentObject = [id |-> id, type |-> type, points |-> <<p>>,
                                 erase |-> erase]]

\* variant of UpdateObject that appends the point whatever the type
UpdateObject_Append(W, p) ==
    IF W.currentObject = NoObj THEN W
    ELSE [W EXCEPT !.currentObject.points = Append(@, p)]

\* useCanvasObjects updateObject
UpdateObject(W, p) ==
    IF W.currentObject = NoObj THEN W
    ELSE IF W.currentObject.type = "stroke"
    THEN [W EXCEPT !.currentObject.points = Append(@, p)]
    ELSE [W EXCEPT !.currentObject.points = <<W.currentObject.points[1], p>>]

\* variant of CommitObject that puts the object below the others
CommitObject_Prepend(W) ==
    IF W.currentObject = NoObj THEN W
    ELSE [W EXCEPT !.objects = <<W.currentObject>> \o @, !.currentObject = NoObj]

\* useCanvasObjects commitObject
CommitObject(W) ==
    IF W.currentObject = NoObj THEN W
    ELSE [W EXCEPT !.objects = Append(@, W.currentObject), !.currentObject = NoObj]

\* variant of CancelObject that drops the last committed object when nothing
\* is in progress
CancelObject_Pop(W) ==
    IF W.currentObject = NoObj /\ W.objects # <<>>
    THEN [W EXCEPT !.objects = SubSeq(@, 1, Len(@) - 1)]
    ELSE [W EXCEPT !.currentObject = NoObj]

\* useCanvasObjects cancelObject
CancelObject(W) == [W EXCEPT !.currentObject = NoObj]

\* the identities of the objects of a list
ObjIds(objs) == {objs[i].id : i \in DOMAIN objs}

\* variant of RemoveObjectById that also drops the objects below the one removed
RemoveObjectById_Below(objs, id) ==
    LET keep(o) == o.id > id
    IN  IF id \in ObjIds(objs) THEN SelectSeq(objs, keep) ELSE objs

\* useCanvasObjects removeObjectById
RemoveObjectById(objs, id) ==
    LET keep(o) == o.id # id
    IN  SelectSeq(objs, keep)

\* ------------------------------------------------------------ hit testing
\* a canvas position
Pt(x, y) == [x |-> x, y |-> y]

Sq(n) == n * n

Min2(a, b) == IF a <= b THEN a ELSE b

\* variant of IsPointNearLine that measures the distance to the infinite line
IsPointNearLine_Unclamped(point, lineStart, lineEnd, threshold2) ==
    LET A == point.x - lineStart.x
        B == point.y - lineStart.y
        C == lineEnd.x - lineStart.x
        D == lineEnd.y - lineStart.y
        dot == A * C + B * D
        lenSq == C * C + D * D
    IN  IF lenSq = 0
        THEN 4 * (Sq(A) + Sq(B)) <= Sq(threshold2)
        ELSE 4 * ((Sq(A) + Sq(B)) * lenSq - Sq(dot)) <= Sq(threshold2) * lenSq

\* isPointNearLine, in integers: threshold2 is twice the threshold, the
\* quotient param = dot / lenSq is compared after multiplying by lenSq, and
\* squares are compared instead of the square roots.  The three branches are
\* param < 0 (also lenSq = 0, where param stays -1), param > 1, and the
\* projection onto the segment.
IsPointNearLine(point, lineStart, lineEnd, threshold2) ==
    LET A == point.x - lineStart.x
        B == point.y - lineStart.y
        C == lineEnd.x - lineStart.x
        D == lineEnd.y - lineStart.y
        dot == A * C + B * D
        lenSq == C * C + D * D
    IN  IF lenSq = 0 \/ dot < 0
        THEN 4 * (Sq(A) + Sq(B)) <= Sq(threshold2)
        ELSE IF dot > lenSq
        THEN 4 * (Sq(point.x - lineEnd.x) + Sq(point.y - lineEnd.y))
                 <= Sq(threshold2)
        ELSE 4 * ((Sq(A) + Sq(B)) * lenSq - Sq(dot)) <= Sq(threshold2) * lenSq

\* the test that the loop of findObjectAt applies to one object
HitObject(obj, point) ==
    IF obj.type = "stroke"
    THEN \E j \in 1..(Len(obj.points) - 1) :
            IsPointNearLine(point, obj.points[j], obj.points[j + 1], obj.width + 10)
    ELSE IF obj.type = "line" /\ Len(obj.points) = 2
    THEN IsPointNearLine(point, obj.points[1], obj.points[2], obj.width + 10)
    ELSE IF obj.type = "rectangle" /\ Len(obj.points) = 2
    THEN LET p1 == obj.points[1]
             p2 == obj.points[2]
             x == Min2(p1.x, p2.x)
             y == Min2(p1.y, p2.y)
             w == IF p2.x < p1.x THEN p1.x - p2.x ELSE p2.x - p1.x
             h == IF p2.y < p1.y THEN p1.y - p2.y ELSE p2.y - p1.y
         IN  /\ point.x >= x
             /\ point.x <= x + w
             /\ point.y >= y
             /\ point.y <= y + h
    ELSE IF obj.type = "circle" /\ Len(obj.points) = 2
    THEN LET center == obj.points[1]
             edge == obj.points[2]
         IN  Sq(point.x - center.x) + Sq(point.y - center.y)
                 <= Sq(edge.x - center.x) + Sq(edge.y - center.y)
    ELSE FALSE

\* the loop of findObjectAt, from position i down to the bottom of the list
RECURSIVE FindFrom(_, _, _)
FindFrom(objs, i, point) ==
    IF i = 0 THEN NoObj
    ELSE IF HitObject(objs[i], point) THEN objs[i]
    ELSE FindFrom(objs, i - 1, point)

\* variant of FindObjectAt that returns the lowest object that is hit
FindObjectAt_Bottom(objs, point) ==
    LET hits == {k \in DOMAIN objs : HitObject(objs[k], point)}
    IN  IF hits = {} THEN NoObj
        ELSE objs[CHOOSE k \in hits : \A m \in hits : k <= m]

\* useCanvasObjects findObjectAt; NoObj stands for null
FindObjectAt(objs, point) == FindFrom(objs, Len(objs), point)

\* --------------------------------------------------------------- pointer
\* what the observer records of a gesture: the tool and the canonical list at
\* pointer-down and the positions sampled so far
GestureStart(samples) ==
    [NoObs EXCEPT !.op = "gesture", !.tool = activeTool, !.objs = objects,
                  !.pts = samples]

GestureMove(p) ==
    IF obs.op = "gesture" THEN [obs EXCEPT !.pts = Append(@, p)] ELSE NoObs

GestureEnd ==
    IF obs.op = "gesture" THEN [obs EXCEPT !.op = "gestureEnd"] ELSE NoObs

\* useCanvasDrawing handlePointerUp: commitObject, then render and effect (the
\* hook's own commitSnapshot has no onCommit to call)
HookPointerUp(W, sd, bd) ==
    IF ~sd \/ W.currentObject = NoObj THEN W
    ELSE Redraw(CommitObject(W), bd)

\* variant of HandlePointerUpShape that leaves the preview on the overlay
HandlePointerUpShape_KeepOverlay(W, shd, bd) ==
    IF ~shd \/ W.currentObject = NoObj THEN W
    ELSE Redraw(CommitObject(W), bd)

\* useCanvasShapes handlePointerUpShape: commitObject and the overlay cleared,
\* then render and effect
HandlePointerUpShape(W, shd, bd) ==
    IF ~shd THEN W
    ELSE LET W1 == [W EXCEPT !.overlay = {}]
         IN  IF W.currentObject = NoObj THEN W1
             ELSE Redraw(CommitObject(W1), bd)

\* the mark that drawing directly on the canvas leaves for the stroke in progress
StrokeMark(W) == W.currentObject.id

\* CanvasBoard onPointerDown with brush or eraser-normal: useCanvasDrawing
\* handlePointerDown starts a stroke and draws its first dot on the canvas
PointerDownBrush(p) ==
    /\ UserOK
    /\ ~pointer
    /\ activeTool \in StrokeTools
    /\ ctxReady
    /\ nextObj <= MaxObjs
    /\ pointer' = TRUE
    /\ strokeDrawing' = TRUE
    /\ LET W1 == StartObject(Cur, "stroke", p, activeTool = "eraser-normal", nextObj)
       IN  Set([W1 EXCEPT !.surface = @ \cup {StrokeMark(W1)}])
    /\ nextObj' = nextObj + 1
    /\ obs' = GestureStart(<<p>>)
    /\ User("downBrush")
    /\ UNCHANGED <<boardDrawing, shapeDrawing, activeTool, nextPage>>

\* CanvasBoard onPointerDown with line, rectangle or circle: handlePointerDownShape
PointerDownShape(p) ==
    /\ UserOK
    /\ ~pointer
    /\ activeTool \in ShapeTools
    /\ ctxReady
    /\ nextObj <= MaxObjs
    /\ pointer' = TRUE
    /\ shapeDrawing' = TRUE
    /\ Set(StartObject(Cur, activeTool, p, FALSE, nextObj))
    /\ nextObj' = nextObj + 1
    /\ obs' = GestureStart(<<p>>)
    /\ User("downShape")
    /\ UNCHANGED <<boardDrawing, strokeDrawing, activeTool, nextPage>>

\* eraseObjectAtPoint: hit = 0 when findObjectAt returns null, else the object
\* is removed and the canvas redrawn while drawingRef is set
EraseObjectAtPoint(W, hit) ==
    IF hit = 0 THEN W
    ELSE Redraw([W EXCEPT !.objects = RemoveObjectById(@, hit)], TRUE)

\* CanvasBoard onPointerDown with eraser-object: handlePointerDownEraserObject
PointerDownEraser ==
    /\ UserOK
    /\ ~pointer
    /\ activeTool = "eraser-object"
    /\ \E hit \in {0} \cup Render(objects) : Set(EraseObjectAtPoint(Cur, hit))
    /\ pointer' = TRUE
    /\ boardDrawing' = TRUE
    /\ obs' = GestureStart(<<>>)
    /\ User("downEraser")
    /\ UNCHANGED <<shapeDrawing, strokeDrawing, activeTool, Ids>>

\* CanvasBoard onPointerMove routes by the active tool; each routed handler
\* returns at once unless its own drawing flag is set
MoveHandled ==
    IF activeTool = "eraser-object" THEN boardDrawing
    ELSE IF activeTool \in ShapeTools THEN shapeDrawing
    ELSE strokeDrawing /\ ctxReady /\ Len(currentObject.points) < MaxStrokeLen

\* handlePointerMoveShape: the overlay is cleared and, when an object is in
\* progress, the preview of the active shape kind is drawn up to the point
ShapePreview(W, p) ==
    IF W.currentObject = NoObj THEN {}
    ELSE {[kind |-> activeTool, to |-> p]}

\* variant of MoveStep in which a stroke does not record the sampled position
MoveStep_NoSample(W, p, hit) ==
    IF activeTool = "eraser-object" THEN EraseObjectAtPoint(W, hit)
    ELSE IF activeTool \in ShapeTools
    THEN [UpdateObject(W, p) EXCEPT !.overlay = ShapePreview(W, p)]
    ELSE [W EXCEPT !.surface = @ \cup {StrokeMark(W)}]

\* the routed move handler: handlePointerMoveEraserObject, handlePointerMoveShape
\* (the preview goes to the overlay canvas) or handlePointerMove (the segment
\* is drawn directly on the canvas)
MoveStep(W, p, hit) ==
    IF activeTool = "eraser-object" THEN EraseObjectAtPoint(W, hit)
    ELSE IF activeTool \in ShapeTools
    THEN [UpdateObject(W, p) EXCEPT !.overlay = ShapePreview(W, p)]
    ELSE LET W1 == UpdateObject(W, p)
         IN  [W1 EXCEPT !.surface = @ \cup {StrokeMark(W1)}]

\* pointermove on the canvas that its handler does not ignore
PointerMove(p) ==
    /\ UserOK
    /\ MoveHandled
    /\ \E hit \in {0} \cup Render(objects) :
          /\ activeTool # "eraser-object" => hit = 0
          /\ Set(MoveStep(Cur, p, hit))
    /\ obs' = GestureMove(p)
    /\ User("move")
    /\ UNCHANGED <<Board, Ids>>

\* pointerdown on the canvas with a stroke or shape tool while ctxRef is
\* empty: handlePointerDown and handlePointerDownShape return at once
PointerDownIgnored ==
    /\ UserOK
    /\ ~pointer
    /\ activeTool \in StrokeTools \cup ShapeTools
    /\ ~ctxReady
    /\ pointer' = TRUE
    /\ obs' = NoObs
    /\ User("downIgnored")
    /\ UNCHANGED <<pages, activePageId, history, redoStack, objects,
                   currentObject, surface, overlay, dbPages, dbHistory, tasks,
                   boardDrawing, shapeDrawing, strokeDrawing, activeTool, Ids>>

\* pointermove on the canvas whose routed handler returns at once
PointerMoveIgnored ==
    /\ UserOK
    /\ ~MoveHandled
    /\ obs' = NoObs
    /\ User("moveIgnored")
    /\ UNCHANGED <<pages, activePageId, history, redoStack, objects,
                   currentObject, surface, overlay, dbPages, dbHistory, tasks,
                   Board, Ids>>

\* pointerup on the canvas: CanvasBoard onPointerUp routed by the active tool,
\* then the window listener of useCanvasDrawing
CanvasPointerUp ==
    /\ UserOK
    /\ pointer
    /\ LET W1 == IF activeTool \in ShapeTools
                 THEN HandlePointerUpShape(Cur, shapeDrawing, FALSE)
                 ELSE IF activeTool = "eraser-object" THEN CommitSnapshot(Cur)
                 ELSE HookPointerUp(Cur, strokeDrawing, FALSE)
           W2 == IF activeTool \in StrokeTools THEN W1
                 ELSE HookPointerUp(W1, strokeDrawing, FALSE)
       IN  Set(W2)
    /\ pointer' = FALSE
    /\ boardDrawing' = FALSE
    /\ shapeDrawing' = IF activeTool \in ShapeTools THEN FALSE ELSE shapeDrawing
    /\ strokeDrawing' = FALSE
    /\ obs' = GestureEnd
    /\ User("upCanvas")
    /\ UNCHANGED <<activeTool, Ids>>

\* pointercancel, or pointerup that the canvas does not receive: only the
\* window listener of useCanvasDrawing runs
WindowPointerUp ==
    /\ UserOK
    /\ pointer
    /\ Set(HookPointerUp(Cur, strokeDrawing, boardDrawing))
    /\ pointer' = FALSE
    /\ strokeDrawing' = FALSE
    /\ obs' = GestureEnd
    /\ User("upWindow")
    /\ UNCHANGED <<boardDrawing, shapeDrawing, activeTool, Ids>>

\* ControlPanel onToolChange
SetTool(t) ==
    /\ UserOK
    /\ t # activeTool
    /\ activeTool' = t
    /\ obs' = NoObs
    /\ User("tool")
    /\ UNCHANGED <<pages, activePageId, history, redoStack, objects,
                   currentObject, surface, overlay, dbPages, dbHistory, tasks,
                   boardDrawing, shapeDrawing, strokeDrawing, pointer, Ids>>

\* ----------------------------------------------------------- select page
\* handleSelectPage from setActivePageId(pageId) to the next suspension
SelectSwitch(W, q, nextUrl, bd) ==
    LET W1 == [ClearForLoad(W) EXCEPT !.activePageId = q]
        W2 == Redraw(W1, bd)
        kind == LoadKind(nextUrl)
        t == Task("select", IF kind = "null" THEN "hist" ELSE kind, q, nextUrl, 0,
                  IF kind = "null" THEN GetHistory(W.dbHistory, q) ELSE <<>>, TRUE)
    IN  [W2 EXCEPT !.tasks = Append(@, t)]

\* handleSelectPage up to `await savePage` of the outgoing page, or to the
\* next suspension when there is no page to save
SelectFlush(W, q, bd) ==
    LET snap == GetDataUrl(W, W.objects)
        nextUrl == UrlOf(W.pages, q)
        W1 == [W EXCEPT !.pages = SetUrl(@, W.activePageId, snap)]
    IN  IF W.activePageId \in PageIds(W.pages)
        THEN [W1 EXCEPT !.dbPages = IF W.storageOk
                                    THEN Upsert(@, W.activePageId, snap) ELSE @,
                        !.tasks = Append(@, Task("select", "saved", q, nextUrl,
                                                 0, <<>>, TRUE))]
        ELSE SelectSwitch(W1, q, nextUrl, bd)

\* handleSelectPage after getHistory returned: the stored entries, or the
\* canvas as the one entry, which saveHistory then stores
SelectLoaded(W, i) ==
    LET t == W.tasks[i]
        snap == GetDataUrl(W, W.objects)
    IN  IF t.sq # <<>>
        THEN [W EXCEPT !.history = [k \in DOMAIN t.sq |-> t.sq[k].dataUrl],
                       !.redoStack = <<>>,
                       !.tasks = RemoveAt(@, i)]
        ELSE [W EXCEPT !.history = <<snap>>,
                       !.redoStack = <<>>,
                       !.dbHistory = IF W.storageOk
                                     THEN SaveHistory(@, t.pid, snap, 0) ELSE @,
                       !.tasks = RemoveAt(@, i)]

\* variant of SelectStart that leaves the outgoing page unrecorded
SelectStart_NoFlush(q) ==
    /\ UserOK
    /\ q \in PageIds(pages)
    /\ q # activePageId
    /\ Set([Cur EXCEPT !.tasks = Append(@, Task("select", "saved", q,
                                                UrlOf(pages, q), 0, <<>>, TRUE))])
    /\ obs' = NoObs
    /\ User("select")
    /\ UNCHANGED <<Board, Ids>>

\* handleSelectPage up to `await savePage` of the outgoing page
SelectStart(q) ==
    /\ UserOK
    /\ q \in PageIds(pages)
    /\ q # activePageId
    /\ Set(SelectFlush(Cur, q, boardDrawing))
    /\ obs' = NoObs
    /\ User("select")
    /\ UNCHANGED <<Board, Ids>>

SelectSaved(i) ==
    /\ tasks[i].kind = "select" /\ tasks[i].pc = "saved"
    /\ Set(SelectSwitch([Cur EXCEPT !.tasks = RemoveAt(@, i)], tasks[i].pid,
                        tasks[i].url, boardDrawing))
    /\ Internal("selectSwitch")
    /\ UNCHANGED <<Board, Ids, obs>>

\* the image of the incoming page loaded: drawImage, then getHistory is issued
SelectImg(i) ==
    /\ tasks[i].kind = "select" /\ tasks[i].pc = "img"
    /\ LET t == tasks[i]
           W1 == DrawImage(Cur, t.url)
       IN  Set([W1 EXCEPT !.tasks[i].pc = "hist",
                          !.tasks[i].sq = GetHistory(dbHistory, t.pid)])
    /\ Internal("selectImg")
    /\ UNCHANGED <<Board, Ids, obs>>

\* getHistory returned
SelectHist(i) ==
    /\ tasks[i].kind = "select" /\ tasks[i].pc = "hist"
    /\ Set(SelectLoaded(Cur, i))
    /\ Internal("selectDone")
    /\ UNCHANGED <<Board, Ids, obs>>

\* -------------------------------------------------------------- add page
\* handleAddPage after `await savePage`: the continuation runs to the end of
\* loadFromDataUrl(null) and past it before React renders
AddSwitch(W, new, bd) ==
    LET W1 == [ClearForLoad(W) EXCEPT
                   !.pages = Append(@, [id |-> new, dataUrl |-> NullUrl]),
                   !.activePageId = new]
        fresh == GetDataUrl(W1, W.objects)
        W2 == [W1 EXCEPT !.history = <<fresh>>,
                         !.redoStack = <<>>,
                         !.dbPages = IF W.storageOk THEN Upsert(@, new, fresh)
                                     ELSE @]
        W3 == Redraw(W2, bd)
    IN  [W3 EXCEPT !.tasks = Append(@, Task("add", "savedNew", new, fresh, 0,
                                            <<>>, TRUE))]

\* handleAddPage without a stored current page: no await before the switch, so
\* the render and effect of the click run before the rest of the handler
AddSwitchInEvent(W, new, bd) ==
    LET W1 == [ClearForLoad(W) EXCEPT
                   !.pages = Append(@, [id |-> new, dataUrl |-> NullUrl]),
                   !.activePageId = new]
        W2 == Redraw(W1, bd)
        fresh == GetDataUrl(W2, W2.objects)
        W3 == [W2 EXCEPT !.history = <<fresh>>,
                         !.redoStack = <<>>,
                         !.dbPages = IF W.storageOk THEN Upsert(@, new, fresh)
                                     ELSE @]
    IN  [W3 EXCEPT !.tasks = Append(@, Task("add", "savedNew", new, fresh, 0,
                                            <<>>, TRUE))]

\* handleAddPage up to `await savePage` of the current page, or to the end of
\* the switch when there is no page to save
AddFlush(W, new, bd) ==
    LET snap == GetDataUrl(W, W.objects)
        W1 == [W EXCEPT !.pages = SetUrl(@, W.activePageId, snap)]
    IN  IF W.activePageId \in PageIds(W.pages)
        THEN [W1 EXCEPT !.dbPages = IF W.storageOk
                                    THEN Upsert(@, W.activePageId, snap) ELSE @,
                        !.tasks = Append(@, Task("add", "saved", new, NullUrl, 0,
                                                 <<>>, TRUE))]
        ELSE AddSwitchInEvent(W1, new, bd)

AddStart ==
    /\ UserOK
    /\ nextPage <= MaxPageIds
    /\ Set(AddFlush(Cur, nextPage, boardDrawing))
    /\ nextPage' = nextPage + 1
    /\ obs' = NoObs
    /\ User("add")
    /\ UNCHANGED <<Board, nextObj>>

AddSaved(i) ==
    /\ tasks[i].kind = "add" /\ tasks[i].pc = "saved"
    /\ Set(AddSwitch([Cur EXCEPT !.tasks = RemoveAt(@, i)], tasks[i].pid,
                     boardDrawing))
    /\ Internal("addSwitch")
    /\ UNCHANGED <<Board, Ids, obs>>

\* savePage of the new page completed: saveHistory(newPage.id, fresh, 0)
AddSavedNew(i) ==
    /\ tasks[i].kind = "add" /\ tasks[i].pc = "savedNew"
    /\ Set([Cur EXCEPT !.dbHistory = IF storageOk
                                      THEN SaveHistory(@, tasks[i].pid,
                                                       tasks[i].url, 0)
                                      ELSE @,
                       !.tasks = RemoveAt(@, i)])
    /\ Internal("addDone")
    /\ UNCHANGED <<Board, Ids, obs>>

\* -------------------------------------------------------- duplicate page
\* handleDuplicatePage up to `await loadFromDataUrl(source)`
DuplicateStart ==
    /\ UserOK
    /\ nextPage <= MaxPageIds
    /\ pages # <<>>
    /\ LET source == GetDataUrl(Cur, objects)
           W1 == [ClearForLoad(Cur) EXCEPT
                      !.pages = Append(@, [id |-> nextPage, dataUrl |-> source]),
                      !.activePageId = nextPage]
           W2 == Redraw(W1, boardDrawing)
       IN  Set([W2 EXCEPT !.tasks = Append(@, Task("dup", LoadKind(source), nextPage,
                                                   source, 0, <<>>, TRUE))])
    /\ nextPage' = nextPage + 1
    /\ obs' = NoObs
    /\ User("duplicate")
    /\ UNCHANGED <<Board, nextObj>>

\* ----------------------------------------------------------- delete page
DeleteNoop ==
    /\ UserOK
    /\ Len(pages) = 1
    /\ obs' = NoObs
    /\ User("deleteNoop")
    /\ UNCHANGED <<pages, activePageId, history, redoStack, objects,
                   currentObject, surface, overlay, dbPages, dbHistory, tasks, Board, Ids>>

\* handleDeletePage up to `await deletePage`, whose rejection is caught; the
\* task keeps the id passed to deletePage in idx
DeleteLocal(W) ==
    LET keep(p) == p.id # W.activePageId
        remaining == SelectSeq(W.pages, keep)
        nextActive == remaining[1]
    IN  [W EXCEPT !.pages = remaining,
                  !.activePageId = nextActive.id,
                  !.dbPages = IF W.storageOk THEN [x \in (DOMAIN @) \ {W.activePageId} |-> @[x]]
                              ELSE @,
                  !.dbHistory = IF W.storageOk
                                THEN DeleteHistoryOf(@, W.activePageId) ELSE @,
                  !.tasks = Append(@, Task("delete", "deleted", nextActive.id,
                                           nextActive.dataUrl, W.activePageId,
                                           <<>>, TRUE))]

\* handleDeletePage up to `await deletePage`
DeleteStart ==
    /\ UserOK
    /\ Len(pages) # 1
    /\ Set(DeleteLocal(Cur))
    /\ obs' = NoObs
    /\ User("delete")
    /\ UNCHANGED <<Board, Ids>>

\* handleDeletePage after deletePage: loadFromDataUrl(nextActive.dataUrl)
DeleteDone(i) ==
    /\ tasks[i].kind = "delete" /\ tasks[i].pc = "deleted"
    /\ LET t == tasks[i]
           kind == LoadKind(t.url)
           W0 == IF kind = "null" THEN [Cur EXCEPT !.tasks = RemoveAt(@, i)]
                 ELSE [Cur EXCEPT !.tasks[i].pc = kind]
           W1 == ClearForLoad(W0)
           snap == GetDataUrl(W1, objects)
           W2 == IF kind = "null"
                 THEN [W1 EXCEPT !.history = <<snap>>, !.redoStack = <<>>]
                 ELSE W1
       IN  Set(Redraw(W2, boardDrawing))
    /\ Internal("deleteSwitch")
    /\ UNCHANGED <<Board, Ids, obs>>

\* the image of the page that became active loaded
DeleteImg(i) ==
    /\ tasks[i].kind = "delete" /\ tasks[i].pc = "img"
    /\ LET W1 == DrawImage(Cur, tasks[i].url)
           snap == GetDataUrl(W1, objects)
       IN  Set([W1 EXCEPT !.history = <<snap>>,
                          !.redoStack = <<>>,
                          !.tasks = RemoveAt(@, i)])
    /\ Internal("deleteDone")
    /\ UNCHANGED <<Board, Ids, obs>>

\* ------------------------------------------------------------------ Next
Next ==
    \/ UndoNoop
    \/ UndoStart
    \/ RedoNoop
    \/ RedoStart
    \/ \E p \in MainPoints : PointerDownBrush(p)
    \/ PointerDownEraser
    \/ \E p \in MainPoints : PointerMove(p)
    \/ CanvasPointerUp
    \/ WindowPointerUp
    \/ \E t \in Tools : SetTool(t)
    \/ \E q \in 1..MaxPageIds : SelectStart(q)
    \/ AddStart
    \/ DuplicateStart
    \/ DeleteNoop
    \/ DeleteStart
    \/ \E i \in DOMAIN tasks : PersistSaved(i)
    \/ \E i \in DOMAIN tasks : PersistCleanup(i)
    \/ \E i \in DOMAIN tasks : UndoImg(i)
    \/ \E i \in DOMAIN tasks : RedoImg(i)
    \/ \E i \in DOMAIN tasks : TaskImgFail(i)
    \/ \E i \in DOMAIN tasks : SelectSaved(i)
    \/ \E i \in DOMAIN tasks : SelectImg(i)
    \/ \E i \in DOMAIN tasks : SelectHist(i)
    \/ \E i \in DOMAIN tasks : AddSaved(i)
    \/ \E i \in DOMAIN tasks : AddSavedNew(i)
    \/ \E i \in DOMAIN tasks : DeleteDone(i)
    \/ \E i \in DOMAIN tasks : DeleteImg(i)

Spec == Init /\ [][Next]_vars

SpecOverlap == InitOverlap /\ [][Next]_vars

\* ------------------------------------------------- a page with full history
\* The state after 99 eraser-object gestures on the first page (each pointer-up
\* commits) followed by Duplicate page: the first page's store holds its last
\* 50 history entries, the undo stack is full.  `events` starts below the
\* budget by MaxFullEvents.
InitFull ==
    /\ pages = <<[id |-> 1, dataUrl |-> Png({}, 1)], [id |-> 2, dataUrl |-> Png({}, 2)]>>
    /\ activePageId = 2
    /\ history = [i \in 1..HistoryCap |->
                     IF i < HistoryCap THEN Png({}, 1) ELSE Png({}, 2)]
    /\ redoStack = <<>>
    /\ objects = <<>>
    /\ currentObject = NoObj
    /\ surface = {}
    /\ overlay = {}
    /\ boardDrawing = FALSE
    /\ shapeDrawing = FALSE
    /\ strokeDrawing = FALSE
    /\ activeTool \in Tools
    /\ pointer = FALSE
    /\ dbPages = [x \in {1, 2} |-> Png({}, x)]
    /\ dbHistory = [i \in 1..HistoryCap |->
                       [pageId |-> 1, dataUrl |-> Png({}, 1),
                        index |-> HistoryCap - 1, seq |-> HistoryCap + i]] \o
                   <<[pageId |-> 2, dataUrl |-> Png({}, 2), index |-> HistoryCap - 1,
                      seq |-> 2 * HistoryCap + 1]>>
    /\ tasks = <<>>
    /\ nextPage = 3
    /\ nextObj = 1
    /\ events = MaxEvents - MaxFullEvents
    /\ overlap = FALSE
    /\ ctxReady = TRUE
    /\ storageOk = TRUE
    /\ pen = MousePen
    /\ ev = "init"
    /\ obs = NoObs

SpecFull == InitFull /\ [][Next]_vars

\* ------------------------------------- draw, switch, add and delete only
InitPages == Init /\ activeTool = "brush"

NextPages ==
    \/ \E p \in MainPoints : PointerDownBrush(p)
    \/ \E p \in MainPoints : PointerMove(p)
    \/ CanvasPointerUp
    \/ WindowPointerUp
    \/ \E q \in 1..MaxPageIds : SelectStart(q)
    \/ AddStart
    \/ DeleteNoop
    \/ DeleteStart
    \/ \E i \in DOMAIN tasks : PersistSaved(i)
    \/ \E i \in DOMAIN tasks : PersistCleanup(i)
    \/ \E i \in DOMAIN tasks : TaskImgFail(i)
    \/ \E i \in DOMAIN tasks : SelectSaved(i)
    \/ \E i \in DOMAIN tasks : AddSaved(i)
    \/ \E i \in DOMAIN tasks : AddSavedNew(i)
    \/ \E i \in DOMAIN tasks : DeleteDone(i)

SpecPages == InitPages /\ [][NextPages]_vars

\* --------------------------------------------- gestures with all six tools
InitGestures ==
    /\ pages = <<[id |-> 1, dataUrl |-> NullUrl]>>
    /\ activePageId = 1
    /\ history = <<BlankHandle>>
    /\ redoStack = <<>>
    /\ objects = <<>>
    /\ currentObject = NoObj
    /\ surface = {}
    /\ overlay = {}
    /\ boardDrawing = FALSE
    /\ shapeDrawing = FALSE
    /\ strokeDrawing = FALSE
    /\ activeTool \in AllTools
    /\ pointer = FALSE
    /\ dbPages = [x \in {1} |-> BlankHandle]
    /\ dbHistory = <<[pageId |-> 1, dataUrl |-> BlankHandle, index |-> 0, seq |-> 1]>>
    /\ tasks = <<>>
    /\ nextPage = 2
    /\ nextObj = 1
    /\ events = MaxEvents - MaxGestureEvents
    /\ overlap = FALSE
    /\ ctxReady = TRUE
    /\ storageOk = TRUE
    /\ pen = MousePen
    /\ ev = "init"
    /\ obs = NoObs

NextGestures ==
    \/ \E p \in Points : PointerDownBrush(p)
    \/ \E p \in Points : PointerDownShape(p)
    \/ PointerDownEraser
    \/ \E p \in Points : PointerMove(p)
    \/ CanvasPointerUp
    \/ WindowPointerUp
    \/ \E t \in AllTools : SetTool(t)
    \/ \E i \in DOMAIN tasks : PersistSaved(i)
    \/ \E i \in DOMAIN tasks : PersistCleanup(i)

SpecGestures == InitGestures /\ [][NextGestures]_vars

\* ------------------------------------- the object store called in any order
\* The functions useCanvasObjects returns, called in any order by the
\* component that holds the hook; a commit that changes `objects` is followed
\* by the render and the redraw effect.
\* what the observer keeps across calls of the object store: the identities
\* of the objects that a startObject replaced while they were in progress
Overwritten(replaced) ==
    obs.over \cup (IF replaced = NoObj THEN {} ELSE {replaced.id})

\* variant of ApiStartObject that commits the object in progress before it
\* starts the new one
ApiStartObject_CommitFirst(type, p, erase) ==
    /\ UserOK
    /\ nextObj <= MaxObjs
    /\ Set(StartObject(CommitObject(Cur), type, p, erase, nextObj))
    /\ nextObj' = nextObj + 1
    /\ obs' = [NoObs EXCEPT !.op = "startObject", !.start = p,
                            !.over = Overwritten(currentObject)]
    /\ User(IF currentObject = NoObj THEN "apiStart" ELSE "apiStartOver")
    /\ UNCHANGED <<Board, nextPage>>

ApiStartObject(type, p, erase) ==
    /\ UserOK
    /\ nextObj <= MaxObjs
    /\ Set(StartObject(Cur, type, p, erase, nextObj))
    /\ nextObj' = nextObj + 1
    /\ obs' = [NoObs EXCEPT !.op = "startObject", !.start = p,
                            !.over = Overwritten(currentObject)]
    /\ User(IF currentObject = NoObj THEN "apiStart" ELSE "apiStartOver")
    /\ UNCHANGED <<Board, nextPage>>

\* variant of ApiUpdateObject that appends the point whatever the type
ApiUpdateObject_Append(p) ==
    /\ UserOK
    /\ currentObject.type = "stroke" => Len(currentObject.points) < MaxStrokeLen
    /\ Set(IF currentObject = NoObj THEN Cur
           ELSE [Cur EXCEPT !.currentObject.points = Append(@, p)])
    /\ obs' = IF obs.op = "startObject" THEN [obs EXCEPT !.updates = @ + 1] ELSE obs
    /\ User(IF currentObject = NoObj THEN "apiUpdateNone" ELSE "apiUpdate")
    /\ UNCHANGED <<Board, Ids>>

ApiUpdateObject(p) ==
    /\ UserOK
    /\ currentObject.type = "stroke" => Len(currentObject.points) < MaxStrokeLen
    /\ Set(UpdateObject(Cur, p))
    /\ obs' = IF obs.op = "startObject" THEN [obs EXCEPT !.updates = @ + 1] ELSE obs
    /\ User(IF currentObject = NoObj THEN "apiUpdateNone" ELSE "apiUpdate")
    /\ UNCHANGED <<Board, Ids>>

ApiCommitObject ==
    /\ UserOK
    /\ Set(IF currentObject = NoObj THEN Cur
           ELSE Redraw(CommitObject(Cur), boardDrawing))
    /\ obs' = [NoObs EXCEPT !.over = Overwritten(NoObj)]
    /\ User(IF currentObject = NoObj THEN "apiCommitNone" ELSE "apiCommit")
    /\ UNCHANGED <<Board, Ids>>

ApiCancelObject ==
    /\ UserOK
    /\ Set(CancelObject(Cur))
    /\ obs' = [NoObs EXCEPT !.over = Overwritten(NoObj)]
    /\ User(IF currentObject = NoObj THEN "apiCancelNone" ELSE "apiCancel")
    /\ UNCHANGED <<Board, Ids>>

\* removeObjectById called directly: filter always yields a new array, so the
\* component renders again and the redraw effect runs
ApiRemoveObjectById(id) ==
    /\ UserOK
    /\ Set(Redraw([Cur EXCEPT !.objects = RemoveObjectById(@, id)], boardDrawing))
    /\ obs' = [NoObs EXCEPT !.op = "removeObjectById", !.arg = id,
                            !.over = Overwritten(NoObj)]
    /\ User(IF id \in ObjIds(objects) THEN "apiRemove" ELSE "apiRemoveNone")
    /\ UNCHANGED <<Board, Ids>>

NextObjects ==
    \/ \E type \in {"stroke"} \cup ShapeTools, p \in Points, erase \in BOOLEAN :
          /\ erase => type = "stroke"
          /\ ApiStartObject(type, p, erase)
    \/ \E p \in Points : ApiUpdateObject(p)
    \/ ApiCommitObject
    \/ ApiCancelObject
    \/ \E id \in 1..MaxObjs : ApiRemoveObjectById(id)
    \/ \E i \in DOMAIN tasks : PersistSaved(i)
    \/ \E i \in DOMAIN tasks : PersistCleanup(i)

\* the store is exercised from the fresh session with the brush selected
InitObjects == InitGestures /\ activeTool = "brush"

SpecObjects == InitObjects /\ [][NextObjects]_vars

\* gestures and direct calls of the object store together
NextObjectsAndGestures ==
    \/ \E type \in {"stroke"} \cup ShapeTools, p \in Points, erase \in BOOLEAN :
          /\ erase => type = "stroke"
          /\ ApiStartObject(type, p, erase)
    \/ \E p \in Points : ApiUpdateObject(p)
    \/ ApiCommitObject
    \/ ApiCancelObject
    \/ NextGestures

SpecObjectsAndGestures == InitGestures /\ [][NextObjectsAndGestures]_vars

\* ------------------------------------- pointer events without a 2d context
\* the session in which getContext('2d') gave no context: ctxRef stays empty
InitNoContext ==
    /\ pages = <<[id |-> 1, dataUrl |-> NullUrl]>>
    /\ activePageId = 1
    /\ history = <<BlankHandle>>
    /\ redoStack = <<>>
    /\ objects = <<>>
    /\ currentObject = NoObj
    /\ surface = {}
    /\ overlay = {}
    /\ boardDrawing = FALSE
    /\ shapeDrawing = FALSE
    /\ strokeDrawing = FALSE
    /\ activeTool \in AllTools
    /\ pointer = FALSE
    /\ dbPages = [x \in {1} |-> BlankHandle]
    /\ dbHistory = <<[pageId |-> 1, dataUrl |-> BlankHandle, index |-> 0, seq |-> 1]>>
    /\ tasks = <<>>
    /\ nextPage = 2
    /\ nextObj = 1
    /\ events = MaxEvents - MaxGestureEvents
    /\ overlap = FALSE
    /\ ctxReady = FALSE
    /\ storageOk = TRUE
    /\ pen = MousePen
    /\ ev = "init"
    /\ obs = NoObs

NextNoContext ==
    \/ PointerDownIgnored
    \/ PointerDownEraser
    \/ \E p \in Points : PointerMove(p)
    \/ PointerMoveIgnored
    \/ CanvasPointerUp
    \/ WindowPointerUp
    \/ \E t \in AllTools : SetTool(t)
    \/ \E i \in DOMAIN tasks : PersistSaved(i)
    \/ \E i \in DOMAIN tasks : PersistCleanup(i)

SpecNoContext == InitNoContext /\ [][NextNoContext]_vars

\* ------------------------------------------------ hit testing on its own
\* the objects that the tested lists are made of; the position in this
\* catalogue is the object's id
HitObjects ==
    << [type |-> "line", points |-> <<Pt(0, 0), Pt(100, 0)>>, width |-> 10],
       [type |-> "line", points |-> <<Pt(0, 0)>>, width |-> 10],
       [type |-> "line", points |-> <<Pt(115, 0), Pt(115, 0)>>, width |-> 2],
       [type |-> "line", points |-> <<Pt(0, 20), Pt(100, 0)>>, width |-> 1],
       [type |-> "stroke", points |-> <<Pt(0, 0), Pt(0, 20), Pt(50, 20)>>, width |-> 2],
       [type |-> "stroke", points |-> <<Pt(50, 6)>>, width |-> 10],
       [type |-> "rectangle", points |-> <<Pt(100, 10), Pt(50, 0)>>, width |-> 2],
       [type |-> "circle", points |-> <<Pt(50, 10), Pt(50, 20)>>, width |-> 2] >>

HitObjectOf(k) ==
    [id |-> k, type |-> HitObjects[k].type, points |-> HitObjects[k].points,
     erase |-> FALSE, width |-> HitObjects[k].width]

\* the lists of at most MaxHitObjs different objects
HitLists ==
    LET idx == UNION {[1..n -> DOMAIN HitObjects] : n \in 0..MaxHitObjs}
        inj == {f \in idx : \A i, j \in DOMAIN f : f[i] = f[j] => i = j}
    IN  {[i \in DOMAIN f |-> HitObjectOf(f[i])] : f \in inj}

\* the snapshot committed when the first n objects of the list were drawn
HitSnapshot(objs, n) == Png(Render(SubSeq(objs, 1, n)), 1)

\* a session on the first page in which the objects of one of the lists have
\* been drawn and committed one after the other
InitHit ==
    /\ objects \in HitLists
    /\ history = <<BlankHandle>> \o [n \in 1..Len(objects) |-> HitSnapshot(objects, n)]
    /\ pages = <<[id |-> 1, dataUrl |-> IF objects = <<>> THEN NullUrl
                                        ELSE HitSnapshot(objects, Len(objects))]>>
    /\ activePageId = 1
    /\ redoStack = <<>>
    /\ currentObject = NoObj
    /\ surface = Render(objects)
    /\ overlay = {}
    /\ boardDrawing = FALSE
    /\ shapeDrawing = FALSE
    /\ strokeDrawing = FALSE
    /\ activeTool = "eraser-object"
    /\ pointer = FALSE
    /\ dbPages = [x \in {1} |-> history[Len(history)]]
    /\ dbHistory = [n \in 1..Len(history) |->
                       [pageId |-> 1, dataUrl |-> history[n], index |-> n - 1,
                        seq |-> n]]
    /\ tasks = <<>>
    /\ nextPage = 2
    /\ nextObj = Len(HitObjects) + 1
    /\ events = 0
    /\ overlap = FALSE
    /\ ctxReady = TRUE
    /\ storageOk = TRUE
    /\ pen = MousePen
    /\ ev = "init"
    /\ obs = NoObs

\* findObjectAt(point) called on the list
ApiFindObjectAt(point) ==
    /\ obs' = [NoObs EXCEPT !.op = "findObjectAt", !.arg = point,
                            !.result = FindObjectAt(objects, point)]
    /\ Internal("apiFind")
    /\ UNCHANGED <<pages, activePageId, history, redoStack, objects,
                   currentObject, surface, overlay, dbPages, dbHistory, tasks, Board, Ids>>

\* the positions that are tested
NextHit ==
    \E point \in {Pt(x, y) : x \in {0, 50, 100, 115}, y \in {0, 6, 10, 20}} :
        ApiFindObjectAt(point)

SpecHit == InitHit /\ [][NextHit]_vars

\* =============================================================== properties
PersistCount(ts) == Cardinality({i \in DOMAIN ts : ts[i].kind = "persist"})

ActiveUrl == UrlOf(pages, activePageId)

\* C1: undo/redo inverse law, the pair form (which is also the n = 1 case of
\* "undo n times, then redo n times"): when an undo() on a stack longer than
\* one entry has run to completion and the redo() that follows it has run to
\* completion, the undo stack, the redo stack and the surface are the ones
\* that held before the undo().
C1_UndoRedoInverse ==
    (obs.op = "redo" /\ obs.done /\ obs.paired) =>
        /\ history = obs.ph
        /\ redoStack = obs.pr
        /\ surface = obs.ps

\* C2: redo invalidation.  Every step in which pushSnapshot ran leaves the
\* redo stack empty; and undo() and redo() do not themselves empty the redo
\* stack: the step of undo() leaves the entry it moved on the redo stack, and
\* redo() leaves the redo stack alone until its load has completed.
C2_RedoInvalidation ==
    [][ /\ (PersistCount(tasks') > PersistCount(tasks) => redoStack' = <<>>)
        /\ (ev' = "undo" => redoStack' # <<>>)
        /\ (ev' = "redo" => redoStack' = redoStack) ]_vars

\* C3: history bound: in every reachable state the undo stack and the redo
\* stack each hold at most 50 snapshots.
C3_HistoryBound ==
    /\ Len(history) <= HistoryCap
    /\ Len(redoStack) <= HistoryCap

\* C4: undo() on an undo stack of length <= 1 changes neither stack, nor the
\* page list (so not the active page's snapshot), nor the surface; undo() is
\* enabled (canUndo) exactly when the stack is longer than one entry; and the
\* undo stack, seeded at start-up, is never empty.
C4_UndoFloor ==
    /\ [](history # <<>>)
    /\ [](CanUndo(history) <=> Len(history) > 1)
    /\ [][ev' \in {"undo", "undoNoop"} =>
             /\ (ev' = "undo") <=> (Len(history) > 1)
             /\ Len(history) <= 1 =>
                    UNCHANGED <<history, redoStack, pages, surface>>]_vars

\* C4 witness: an undo() was attempted on a one-entry stack
C4_Witness == ev = "undoNoop" /\ Len(history) = 1 /\ obs.h = history

\* C5: a completed undo() on a stack longer than one entry removes exactly the
\* top entry, puts it at the head of the redo stack, shows the new top on the
\* surface and makes the new top the active page's snapshot.
C5_UndoPops ==
    (obs.op = "undo" /\ obs.done /\ Len(obs.h) > 1) =>
        LET n == Len(obs.h)
            newTop == obs.h[n - 1]
        IN  /\ history = SubSeq(obs.h, 1, n - 1)
            /\ redoStack = CapHead(<<obs.h[n]>> \o obs.r)
            /\ surface = newTop.px
            /\ ActiveUrl = newTop

\* C6: redo() on an empty redo stack changes nothing; a completed redo() on a
\* non-empty one removes the head of the redo stack, appends it to the undo
\* stack and makes it the surface content and the active page's snapshot.
C6_RedoPops ==
    /\ (obs.op = "redo" /\ obs.done /\ obs.r = <<>>) =>
           /\ history = obs.h
           /\ redoStack = obs.r
           /\ surface = obs.s
           /\ ActiveUrl = obs.u
    /\ (obs.op = "redo" /\ obs.done /\ obs.r # <<>>) =>
           /\ history = CapTail(Append(obs.h, Head(obs.r)))
           /\ redoStack = Tail(obs.r)
           /\ surface = Head(obs.r).px
           /\ ActiveUrl = Head(obs.r)

\* C7: when a page switch, add or delete has completed (its handler ran to its
\* end), the undo stack has exactly one entry and the redo stack is empty.
C7_PageOpResets ==
    (\/ ev \in {"selectDone", "addDone", "deleteDone"}
     \/ (ev = "deleteSwitch" /\ \A i \in DOMAIN tasks : tasks[i].kind # "delete")) =>
        /\ Len(history) = 1
        /\ redoStack = <<>>

\* C8: page isolation over draw, switch, add and delete: once every handler
\* has finished, the undo stack holds only snapshots taken while the page now
\* active was active; and a commit produced by a drawing gesture leaves the
\* snapshot of every other page, in the page list and in the store, unchanged.
C8_PageIsolation ==
    /\ [](tasks = <<>> => \A i \in DOMAIN history : history[i].pg = activePageId)
    /\ [][ev' \in {"upCanvas", "upWindow"} =>
             \A q \in PageIds(pages) \ {activePageId} :
                 /\ UrlOf(pages', q) = UrlOf(pages, q)
                 /\ q \in DOMAIN dbPages =>
                        q \in DOMAIN dbPages' /\ dbPages'[q] = dbPages[q]]_vars

\* C9: no stale completion is applied: when the surface load or history load
\* of an undo, redo or page switch started for page P completes while another
\* page is active, the surface, both stacks and the stored snapshots stay as
\* they are.
C9_NoStaleCompletion ==
    [][\A i \in DOMAIN tasks :
          (/\ tasks[i].pid # activePageId
           /\ UndoImg(i) \/ RedoImg(i) \/ SelectImg(i) \/ SelectHist(i)) =>
              UNCHANGED <<surface, history, redoStack, pages, dbPages>>]_vars

\* C10: with one handler running at a time, in the step of a page switch or
\* add that changes the active page id away from P, P's entry in the page list already is the snapshot object
\* taken from P's surface and P's objects, the store already holds it, and the
\* step leaves it in the page list.
C10_FlushBeforeSwitch ==
    [][(ev' \in {"select", "selectSwitch", "add", "addSwitch"}
        /\ activePageId' # activePageId) =>
           LET snapP == UrlOf(pages, activePageId)
           IN  /\ snapP = GetDataUrl(Cur, objects)
               /\ activePageId \in DOMAIN dbPages
               /\ dbPages[activePageId] = snapP
               /\ UrlOf(pages', activePageId) = snapP]_vars

\* C10 witness: a switch away from a page with marks on it has happened and
\* that page's recorded and stored snapshot shows the marks
C10_Witness ==
    /\ ev = "selectSwitch"
    /\ \E i \in DOMAIN pages :
          /\ pages[i].id # activePageId
          /\ pages[i].dataUrl.k = "handle"
          /\ pages[i].dataUrl.px # {}
          /\ pages[i].dataUrl.pg = pages[i].id
          /\ pages[i].id \in DOMAIN dbPages
          /\ dbPages[pages[i].id] = pages[i].dataUrl


\* the stored snapshot of the active page, the top of the undo stack and the
\* canvas show the same picture
RepresentationsAgree ==
    /\ history # <<>>
    /\ ActiveUrl = history[Len(history)]
    /\ surface = ActiveUrl.px
    /\ objects # <<>> => surface = Render(objects)

\* C11: after every completed commit, undo or redo on the active page, the
\* active page's stored snapshot equals the top of the undo stack and the
\* surface shows that snapshot (the render of the object list when there is one).
C11_RepresentationsAgree ==
    [][(\/ ev' \in {"undoDone", "redoDone"}
        \/ ev' \in {"upCanvas", "upWindow"} /\ history' # history)
       => RepresentationsAgree']_vars


\* C12: the in-progress slot holds at most one object (it is one reference);
\* the object in progress is not an element of the canonical list; an object
\* enters the list only as the object in progress at a commit; and after
\* commitObject() it is in the list and nothing is in progress.
C12_OneInProgress ==
    /\ [](currentObject # NoObj => currentObject.id \notin ObjIds(objects))
    /\ [][/\ \A i \in DOMAIN objects' :
                objects'[i].id \notin ObjIds(objects) =>
                    /\ objects'[i] = currentObject
                    /\ ev' \in {"apiCommit", "upCanvas", "upWindow"}
          /\ ev' = "apiCommit" =>
                /\ currentObject' = NoObj
                /\ objects' # <<>>
                /\ objects'[Len(objects')] = currentObject]_vars

\* C12 witness: commitObject() has just moved the object in progress into a
\* list that already held another object
C12_Witness ==
    /\ ev = "apiCommit"
    /\ currentObject = NoObj
    /\ Len(objects) = 2
    /\ objects[2].id = nextObj - 1


\* C13: when the end of a stroke gesture is delivered to the canvas pointer-up
\* handler and to the window listener, the gesture is finalized exactly once:
\* exactly one object is appended to the canonical list and exactly one commit
\* snapshot is pushed to the history.
C13_IdempotentFinalize ==
    [][(ev' = "upCanvas" /\ strokeDrawing /\ currentObject # NoObj) =>
          /\ objects' = Append(objects, currentObject)
          /\ Len(history') = Len(history) + 1]_vars


\* C14: for each of the six tools, once a pointer-down has started a gesture,
\* the delivery of a pointer-up or of a pointer-cancel, on the canvas or only
\* on the window, ends the gesture: afterwards no drawing flag is set and no
\* object is left in progress.
C14_GestureTerminates ==
    [][(pointer /\ ev' \in {"upCanvas", "upWindow"}) =>
          /\ ~boardDrawing'
          /\ ~shapeDrawing'
          /\ ~strokeDrawing'
          /\ currentObject' = NoObj]_vars


\* C15: commitObject() with an object in progress appends that object at the
\* end of the canonical list, keeps every earlier entry in place and in
\* order, and clears the in-progress slot.
C15_CommitAppends ==
    [][ev' = "apiCommit" =>
          /\ currentObject # NoObj
          /\ objects' = Append(objects, currentObject)
          /\ SubSeq(objects', 1, Len(objects)) = objects
          /\ currentObject' = NoObj]_vars

\* C15 witness: commitObject() has put the second object above the first
C15_Witness ==
    /\ ev = "apiCommit"
    /\ currentObject = NoObj
    /\ Len(objects) = 2
    /\ objects[1].id = 1
    /\ objects[2].id = 2


C17_NoOps ==
    /\ [][ev' \in {"apiUpdateNone", "apiCommitNone", "apiCancelNone"} =>
             /\ currentObject = NoObj
             /\ UNCHANGED <<objects, currentObject, surface, history,
                            redoStack, pages, dbPages, dbHistory, tasks>>]_vars
    /\ []((currentObject = NoObj /\ UserOK) =>
             /\ ENABLED ApiCommitObject
             /\ ENABLED ApiCancelObject
             /\ \A p \in Points : ENABLED ApiUpdateObject(p))

\* C17 witness: cancelObject() was called with nothing in progress and a
\* committed object in the list
C17_Witness ==
    /\ ev = "apiCancelNone"
    /\ currentObject = NoObj
    /\ objects # <<>>


\* C18: startObject called while another object is in progress replaces the
\* object in progress and leaves the canonical list unchanged; the object it
\* replaced never appears in the canonical list afterwards.
C18_StartReplaces ==
    /\ [][ev' = "apiStartOver" =>
             /\ currentObject # NoObj
             /\ objects' = objects
             /\ currentObject'.id # currentObject.id
             /\ Len(currentObject'.points) = 1
             /\ currentObject.id \in obs'.over]_vars
    /\ [](ObjIds(objects) \cap obs.over = {})

\* C18 witness: an object was replaced while in progress, and the object that
\* replaced it has been committed
C18_Witness ==
    /\ ev = "apiCommit"
    /\ obs.over # {}
    /\ objects # <<>>
    /\ currentObject = NoObj


\* the point counts that C19 allows for one object
PointCountOK(o) ==
    /\ Len(o.points) >= 1
    /\ o.type \in ShapeTools => Len(o.points) <= 2

\* C19: after any sequence of startObject, updateObject, commitObject,
\* cancelObject and pointer gestures, every object in the canonical list and
\* the object in progress has at least 1 point, and every line, rectangle and
\* circle has at most 2 points.
C19_PointCounts ==
    /\ \A i \in DOMAIN objects : PointCountOK(objects[i])
    /\ currentObject # NoObj => PointCountOK(currentObject)

\* C19 witness: a stroke that has been updated is in progress above a
\* committed shape of two points
C19_Witness ==
    /\ ev = "apiUpdate"
    /\ currentObject.type = "stroke"
    /\ Len(currentObject.points) = 2
    /\ objects # <<>>
    /\ objects[1].type \in ShapeTools
    /\ Len(objects[1].points) = 2


\* C20: every line, rectangle and circle that a shape gesture commits to the
\* canonical list has exactly 2 points, also when the gesture is a
\* pointer-down directly followed by a pointer-up with no pointer-move.
C20_ShapesHaveTwoPoints ==
    \A i \in DOMAIN objects :
        objects[i].type \in ShapeTools => Len(objects[i].points) = 2


\* C21: removeObjectById(id) removes exactly the object with that id from the
\* canonical list and keeps the others in their order; with an id that is not
\* in the list the list is unchanged; the object in progress is not affected.
C21_RemoveById ==
    [][ev' \in {"apiRemove", "apiRemoveNone"} =>
          /\ currentObject' = currentObject
          /\ IF obs'.arg \in ObjIds(objects)
             THEN \E k \in DOMAIN objects :
                     /\ objects[k].id = obs'.arg
                     /\ objects' = RemoveAt(objects, k)
             ELSE objects' = objects]_vars

\* C21 witness: the lower of two committed objects has been removed
C21_Witness ==
    /\ ev = "apiRemove"
    /\ obs.arg = 1
    /\ Len(objects) = 1
    /\ objects[1].id = 2


\* the positions of the objects of a list that HitObject accepts for a point
HitPositions(objs, point) == {k \in DOMAIN objs : HitObject(objs[k], point)}

\* C22: findObjectAt(point) returns the object with the highest list position
\* among the objects whose hit region contains the point, null when there is
\* none, and does not modify the list.
C22_FindTopmost ==
    [][ev' = "apiFind" =>
          LET hits == HitPositions(objects, obs'.arg)
          IN  /\ objects' = objects
              /\ hits = {} => obs'.result = NoObj
              /\ hits # {} =>
                    \E k \in hits :
                       /\ \A m \in hits : m <= k
                       /\ obs'.result = objects[k]]_vars

\* C22 witness: two objects contain the point and the upper one was returned
C22_Witness ==
    /\ ev = "apiFind"
    /\ Len(objects) = 2
    /\ HitPositions(objects, obs.arg) = {1, 2}
    /\ obs.result = objects[2]


\* the distance from the point to the segment [s, e], clamped to the
\* segment's endpoints, is at most width/2 + 5: the perpendicular distance
\* |cross| / |e - s| when the foot of the perpendicular lies on the segment,
\* the distance to the nearer endpoint otherwise
WithinSegment(point, s, e, width) ==
    LET ex == e.x - s.x
        ey == e.y - s.y
        px == point.x - s.x
        py == point.y - s.y
        lenSq == Sq(ex) + Sq(ey)
        along == px * ex + py * ey
        cross == px * ey - py * ex
        toStart == Sq(px) + Sq(py)
        toEnd == Sq(point.x - e.x) + Sq(point.y - e.y)
    IN  IF lenSq > 0 /\ along >= 0 /\ along <= lenSq
        THEN 4 * Sq(cross) <= Sq(width + 10) * lenSq
        ELSE 4 * Min2(toStart, toEnd) <= Sq(width + 10)

\* the line (0,0)-(100,0) of width 10 of the claim's example
ExampleLine == HitObjectOf(1)

\* C23: a line or stroke is hit exactly when the distance from the point to
\* one of its segments, clamped to the segment's endpoints, is at most
\* width/2 + 5; for the line (0,0)-(100,0) of width 10 the points (50,6) and
\* (50,10) hit, (50,20) does not, and (115,0) beyond the endpoint does not.
C23_SegmentDistance ==
    /\ [][ev' = "apiFind" =>
             \A k \in DOMAIN objects :
                (/\ objects[k].type \in {"line", "stroke"}
                 /\ \A m \in DOMAIN objects : m > k => ~HitObject(objects[m], obs'.arg))
                => ((obs'.result = objects[k]) <=>
                       \E j \in 1..(Len(objects[k].points) - 1) :
                          WithinSegment(obs'.arg, objects[k].points[j],
                                        objects[k].points[j + 1], objects[k].width))]_vars
    /\ []((ev = "apiFind" /\ objects = <<ExampleLine>>) =>
             /\ obs.arg \in {Pt(50, 6), Pt(50, 10)} => obs.result = ExampleLine
             /\ obs.arg \in {Pt(50, 20), Pt(115, 0)} => obs.result = NoObj)

\* C23 witness: the point (115,0) on the infinite line through the example
\* line, beyond its endpoint, was tested and missed
C23_Witness ==
    /\ ev = "apiFind"
    /\ objects = <<ExampleLine>>
    /\ obs.arg = Pt(115, 0)
    /\ obs.result = NoObj


\* C24: an object-eraser gesture pushes a commit snapshot to the history at
\* pointer-up if and only if at least one object was removed between its
\* pointer-down and its pointer-up; a gesture that hits nothing adds no
\* history entry and does not clear the redo stack.
C24_EraserCommit ==
    [][(ev' = "upCanvas" /\ obs.op = "gesture" /\ obs.tool = "eraser-object") =>
          /\ (history' # history) <=> (objects # obs.objs)
          /\ objects = obs.objs => UNCHANGED <<history, redoStack>>]_vars


\* C25: a completed freehand gesture (pointer-down, pointer-moves, pointer-up)
\* with the brush or eraser-normal appends exactly one stroke to the canonical
\* list, with erase set exactly when the tool is eraser-normal and with one
\* point per sampled position in order, and pushes exactly one commit
\* snapshot; the list is unchanged between pointer-down and pointer-up.
C25_FreehandGesture ==
    /\ []((obs.op = "gesture" /\ obs.tool \in StrokeTools) => objects = obs.objs)
    /\ [][(ev' = "upCanvas" /\ obs.op = "gesture" /\ obs.tool \in StrokeTools) =>
             /\ Len(objects') = Len(obs.objs) + 1
             /\ SubSeq(objects', 1, Len(obs.objs)) = obs.objs
             /\ objects'[Len(objects')].type = "stroke"
             /\ objects'[Len(objects')].points = obs.pts
             /\ objects'[Len(objects')].erase = (obs.tool = "eraser-normal")
             /\ Len(history') = Len(history) + 1
             /\ SubSeq(history', 1, Len(history)) = history]_vars

\* C25 witness: an eraser-normal gesture with a pointer-move has ended
C25_Witness ==
    /\ ev = "upCanvas"
    /\ obs.op = "gestureEnd"
    /\ obs.tool = "eraser-normal"
    /\ Len(obs.pts) = 2
    /\ objects # <<>>
    /\ objects[Len(objects)].erase
    /\ objects[Len(objects)].points = obs.pts


\* C26: during a shape gesture a pointer-move changes only the object in
\* progress and the overlay preview, the canonical list and the history
\* stacks staying as they were until pointer-up; pointer-up appends exactly
\* one object of the active shape kind, clears the overlay and pushes exactly
\* one commit snapshot.
C26_ShapeGesture ==
    /\ []((obs.op = "gesture" /\ obs.tool \in ShapeTools) => objects = obs.objs)
    /\ [][(ev' = "move" /\ obs.op = "gesture" /\ obs.tool \in ShapeTools) =>
             /\ UNCHANGED <<objects, history, redoStack, surface, pages,
                            dbPages, dbHistory, tasks>>
             /\ overlay' = {[kind |-> obs.tool, to |-> currentObject'.points[2]]}]_vars
    /\ [][(ev' = "upCanvas" /\ obs.op = "gesture" /\ obs.tool \in ShapeTools) =>
             /\ Len(objects') = Len(obs.objs) + 1
             /\ SubSeq(objects', 1, Len(obs.objs)) = obs.objs
             /\ objects'[Len(objects')].type = obs.tool
             /\ overlay' = {}
             /\ Len(history') = Len(history) + 1
             /\ SubSeq(history', 1, Len(history)) = history]_vars

\* C26 witness: a circle gesture with a pointer-move has ended
C26_Witness ==
    /\ ev = "upCanvas"
    /\ obs.op = "gestureEnd"
    /\ obs.tool = "circle"
    /\ Len(obs.pts) = 2
    /\ overlay = {}
    /\ objects # <<>>
    /\ objects[Len(objects)].type = "circle"
    /\ objects[Len(objects)].points = obs.pts


\* C27: a pointer-down, pointer-move or pointer-up that arrives while the
\* drawing context is not mounted is a silent no-op for every tool: no
\* gesture is started, and the object in progress, the canonical list, the
\* history stacks and the drawing flags are unchanged.
C27_UnmountedNoOp ==
    [][(~ctxReady /\ ev' \in {"downIgnored", "downEraser", "move",
                              "moveIgnored", "upCanvas"}) =>
          UNCHANGED <<currentObject, objects, history, redoStack,
                      boardDrawing, shapeDrawing, strokeDrawing>>]_vars


\* ------------------------------------------------------- serialization
\* The text produced by JSON.stringify is modelled by its tokens: numbers and
\* booleans are rendered to strings and read back from strings, optional
\* members that are undefined are left out, and a text that is no array is
\* either some other JSON value or no JSON at all.
MaxSerialObjs == 2
MaxLoadEvents == 1

PtP(x, y, pressure) == [x |-> x, y |-> y, pressure |-> pressure]

\* DrawObject values as startObject and updateObject build them (pressure in
\* hundredths)
SerialObjects ==
    << [type |-> "stroke", points |-> <<PtP(0, 0, 50), PtP(0, 20, 30), PtP(50, 20, 100)>>,
        color |-> "#000000", width |-> 2, fill |-> FALSE, erase |-> TRUE],
       [type |-> "line", points |-> <<Pt(0, 0), Pt(100, 0)>>,
        color |-> "#ff0000", width |-> 10, fill |-> FALSE, erase |-> FALSE],
       [type |-> "rectangle", points |-> <<Pt(100, 10), Pt(50, 0)>>,
        color |-> "#0000ff", width |-> 1, fill |-> TRUE, erase |-> FALSE] >>

\* the lists of at most MaxSerialObjs different objects
SerialLists ==
    LET idx == UNION {[1..n -> DOMAIN SerialObjects] : n \in 0..MaxSerialObjs}
        inj == {f \in idx : \A i, j \in DOMAIN f : f[i] = f[j] => i = j}
        of(k) == [id |-> k] @@ SerialObjects[k]
    IN  {[i \in DOMAIN f |-> of(f[i])] : f \in inj}

\* JSON.stringify of a finite number, and JSON.parse of a number token (of
\* one of the numbers that occur in the objects)
NumText(n) == ToString(n)
TextNum(t) == CHOOSE n \in {0, 1, 2, 3, 10, 20, 30, 50, 100} : ToString(n) = t

\* JSON.stringify of a boolean, and JSON.parse of a boolean token
BoolText(b) == IF b THEN "true" ELSE "false"
TextBool(t) == t = "true"

\* JSON.stringify of a Point: an undefined pressure is left out
PointText(p) ==
    IF "pressure" \in DOMAIN p
    THEN [x |-> NumText(p.x), y |-> NumText(p.y), pressure |-> NumText(p.pressure)]
    ELSE [x |-> NumText(p.x), y |-> NumText(p.y)]

TextPoint(t) ==
    IF "pressure" \in DOMAIN t
    THEN PtP(TextNum(t.x), TextNum(t.y), TextNum(t.pressure))
    ELSE Pt(TextNum(t.x), TextNum(t.y))

\* JSON.stringify of a DrawObject (the id is a string in the program)
ObjText(o) ==
    [id |-> NumText(o.id), type |-> o.type,
     points |-> [i \in DOMAIN o.points |-> PointText(o.points[i])],
     color |-> o.color, width |-> NumText(o.width),
     fill |-> BoolText(o.fill), erase |-> BoolText(o.erase)]

TextObj(t) ==
    [id |-> TextNum(t.id), type |-> t.type,
     points |-> [i \in DOMAIN t.points |-> TextPoint(t.points[i])],
     color |-> t.color, width |-> TextNum(t.width),
     fill |-> TextBool(t.fill), erase |-> TextBool(t.erase)]

JsonText(kind, items) == [kind |-> kind, items |-> items]

\* variant of SerializeObjects that writes the objects last to first
SerializeObjects_Reversed(objs) ==
    JsonText("array", [i \in DOMAIN objs |-> ObjText(objs[Len(objs) + 1 - i])])

\* useCanvasObjects serializeObjects: JSON.stringify(objects)
SerializeObjects(objs) ==
    JsonText("array", [i \in DOMAIN objs |-> ObjText(objs[i])])

\* texts that are no serialized list: the empty string, a text that is no
\* JSON, and the JSON texts null, {} and 42
MalformedTexts ==
    {JsonText("empty", <<>>), JsonText("invalid", <<>>), JsonText("null", <<>>),
     JsonText("object", <<>>), JsonText("number", <<>>)}

JsonInputs == {SerializeObjects(L) : L \in SerialLists} \cup MalformedTexts

\* the value of `objects` when the state holds something that is no array
NonList(kind) == <<[id |-> 0, type |-> kind, points |-> <<>>]>>

IsList(objs) == \A i \in DOMAIN objs : objs[i].id # 0

\* JSON.parse: throws on a text that is no JSON, returns the value otherwise
JsonParse(text) ==
    IF text.kind \in {"empty", "invalid"} THEN [threw |-> TRUE, value |-> <<>>]
    ELSE IF text.kind = "array"
    THEN [threw |-> FALSE,
          value |-> [i \in DOMAIN text.items |-> TextObj(text.items[i])]]
    ELSE [threw |-> FALSE, value |-> NonList(text.kind)]

\* useCanvasObjects deserializeObjects:
\* try { setObjects(JSON.parse(json)) } catch { setObjects([]) }
DeserializeObjects(W, json) ==
    LET parsed == JsonParse(json)
    IN  [W EXCEPT !.objects = IF parsed.threw THEN <<>> ELSE parsed.value]

\* the redraw effect after the render that follows setObjects: renderObjects
\* calls objects.forEach, which throws after the clearRect when the state is
\* no array
RedrawParsed(W, drawing) ==
    IF IsList(W.objects) THEN Redraw(W, drawing) ELSE [W EXCEPT !.surface = {}]

\* a session on the first page in which the objects of one of the lists have
\* been drawn and committed one after the other
InitSnapshot ==
    /\ objects \in SerialLists
    /\ history = <<BlankHandle>> \o [n \in 1..Len(objects) |-> HitSnapshot(objects, n)]
    /\ pages = <<[id |-> 1, dataUrl |-> IF objects = <<>> THEN NullUrl
                                        ELSE HitSnapshot(objects, Len(objects))]>>
    /\ activePageId = 1
    /\ redoStack = <<>>
    /\ currentObject = NoObj
    /\ surface = Render(objects)
    /\ overlay = {}
    /\ boardDrawing = FALSE
    /\ shapeDrawing = FALSE
    /\ strokeDrawing = FALSE
    /\ activeTool = "brush"
    /\ pointer = FALSE
    /\ dbPages = [x \in {1} |-> history[Len(history)]]
    /\ dbHistory = [n \in 1..Len(history) |->
                       [pageId |-> 1, dataUrl |-> history[n], index |-> n - 1,
                        seq |-> n]]
    /\ tasks = <<>>
    /\ nextPage = 2
    /\ nextObj = Len(SerialObjects) + 1
    /\ events = MaxEvents - MaxLoadEvents
    /\ overlap = FALSE
    /\ ctxReady = TRUE
    /\ storageOk = TRUE
    /\ pen = MousePen
    /\ ev = "init"
    /\ obs = NoObs

\* serializeObjects() called on the list
ApiSerializeObjects ==
    /\ IsList(objects)
    /\ obs' = [NoObs EXCEPT !.op = "serializeObjects", !.objs = objects,
                            !.result = SerializeObjects(objects)]
    /\ Internal("apiSerialize")
    /\ UNCHANGED <<pages, activePageId, history, redoStack, objects,
                   currentObject, surface, overlay, dbPages, dbHistory, tasks, Board, Ids>>

\* deserializeObjects(json), then the render and the redraw effect
ApiDeserializeObjects(json) ==
    /\ UserOK
    /\ IsList(objects)
    /\ Set(RedrawParsed(DeserializeObjects(Cur, json), boardDrawing))
    /\ obs' = [NoObs EXCEPT !.op = "deserializeObjects", !.arg = json,
                            !.objs = objects]
    /\ User("apiDeserialize")
    /\ UNCHANGED <<Board, Ids>>


\* ------------------------------------------------------- loading a snapshot
\* JavaScript truthiness of the objectsJson argument: undefined and the empty
\* string are falsy
JsonTruthy(json) == json.kind \notin {"undefined", "empty"}

\* pixels of a snapshot that no object of the lists renders
LegacyPixels == {0}

\* variant of LoadFromDataUrl that also draws the pixels of dataUrl when the
\* objects were given
LoadFromDataUrl_GhostPixels(W, dataUrl, objectsJson, drawing) ==
    IF JsonTruthy(objectsJson)
    THEN DrawImage(RedrawParsed(DeserializeObjects(W, objectsJson), drawing), dataUrl)
    ELSE LET W1 == Redraw(ClearForLoad(W), drawing)
         IN  IF Truthy(dataUrl)
             THEN [W1 EXCEPT !.tasks = Append(@, Task("load", LoadKind(dataUrl),
                                                     W.activePageId, dataUrl, 0,
                                                     <<>>, TRUE))]
             ELSE W1

\* the handle's loadFromDataUrl up to its await, then the render and the
\* redraw effect: the objects when given, else clearObjects and the pixels
LoadFromDataUrl(W, dataUrl, objectsJson, drawing) ==
    IF JsonTruthy(objectsJson)
    THEN RedrawParsed(DeserializeObjects(W, objectsJson), drawing)
    ELSE LET W1 == Redraw(ClearForLoad(W), drawing)
         IN  IF Truthy(dataUrl)
             THEN [W1 EXCEPT !.tasks = Append(@, Task("load", LoadKind(dataUrl),
                                                     W.activePageId, dataUrl, 0,
                                                     <<>>, TRUE))]
             ELSE W1

\* loadFromDataUrl(dataUrl, objectsJson) called on the handle
ApiLoadFromDataUrl(dataUrl, objectsJson) ==
    /\ UserOK
    /\ IsList(objects)
    /\ Set(LoadFromDataUrl(Cur, dataUrl, objectsJson, boardDrawing))
    /\ obs' = [NoObs EXCEPT !.op = "loadFromDataUrl", !.arg = dataUrl,
                            !.result = objectsJson, !.objs = objects,
                            !.s = surface]
    /\ User(IF JsonTruthy(objectsJson) THEN "loadObjects"
            ELSE IF Truthy(dataUrl) THEN "loadPixels" ELSE "loadDone")
    /\ UNCHANGED <<Board, Ids>>

\* loadPixels after the image decoded: drawImage
LoadImg(i) ==
    /\ tasks[i].kind = "load" /\ tasks[i].pc = "img"
    /\ LET W1 == DrawImage(Cur, tasks[i].url)
       IN  Set([W1 EXCEPT !.tasks = RemoveAt(@, i)])
    /\ Internal("loadDone")
    /\ UNCHANGED <<Board, Ids, obs>>

NextSnapshot ==
    \/ ApiSerializeObjects
    \/ \E json \in JsonInputs : ApiDeserializeObjects(json)
    \/ \E dataUrl \in {NullUrl, Png(LegacyPixels, 1)}, json \in JsonInputs \cup {JsonText("undefined", <<>>)} :
          ApiLoadFromDataUrl(dataUrl, json)
    \/ \E i \in DOMAIN tasks : LoadImg(i)
    \/ \E i \in DOMAIN tasks : PersistSaved(i)
    \/ \E i \in DOMAIN tasks : PersistCleanup(i)

SpecSnapshot == InitSnapshot /\ [][NextSnapshot]_vars

C29_MalformedGivesEmpty ==
    [](ev = "apiDeserialize" =>
         /\ IsList(objects)
         /\ obs.arg \in MalformedTexts => objects = <<>>)

\* C30: after loadFromDataUrl with serialized objects the list is the
\* deserialized list and the canvas shows these objects and none of the pixels
\* of dataUrl; without them the list is empty and the canvas shows the pixels
\* of dataUrl alone, nothing when dataUrl is null; the canvas never shows
\* pixels of dataUrl beside a non-empty list.
C30_LoadSnapshot ==
    /\ [](ev = "loadObjects" =>
            \A L \in SerialLists : obs.result = SerializeObjects(L) =>
                /\ objects = L
                /\ surface = Render(L))
    /\ [](ev = "loadDone" /\ obs.op = "loadFromDataUrl" =>
            /\ objects = <<>>
            /\ surface = obs.arg.px)
    /\ [](obs.op = "loadFromDataUrl" =>
            (objects = <<>> \/ surface \cap LegacyPixels = {}))

\* objects were loaded beside a dataUrl that has pixels, over a canvas that
\* showed other objects
C30_Witness ==
    /\ ev = "loadObjects"
    /\ obs.arg = Png(LegacyPixels, 1)
    /\ IsList(objects)
    /\ obs.result = SerializeObjects(objects)
    /\ Len(objects) = 2
    /\ Render(objects) # {} /\ obs.s # {} /\ obs.s # Render(objects)


\* --------------------------------------------------- a store that may fail
\* The session of Spec with the object eraser, in which the store stops
\* accepting writes at some time (quota exceeded, I/O error): savePage
\* and deletePage are rejected, saveHistory fails and logs.
MaxStorageEvents == 4

InitStorage ==
    /\ pages = <<[id |-> 1, dataUrl |-> NullUrl]>>
    /\ activePageId = 1
    /\ history = <<BlankHandle>>
    /\ redoStack = <<>>
    /\ objects = <<>>
    /\ currentObject = NoObj
    /\ surface = {}
    /\ overlay = {}
    /\ boardDrawing = FALSE
    /\ shapeDrawing = FALSE
    /\ strokeDrawing = FALSE
    /\ activeTool = "eraser-object"
    /\ pointer = FALSE
    /\ dbPages = [x \in {1} |-> BlankHandle]
    /\ dbHistory = <<[pageId |-> 1, dataUrl |-> BlankHandle, index |-> 0, seq |-> 1]>>
    /\ tasks = <<>>
    /\ nextPage = 2
    /\ nextObj = 1
    /\ events = MaxEvents - MaxStorageEvents
    /\ overlap = FALSE
    /\ ctxReady = TRUE
    /\ storageOk \in BOOLEAN
    /\ pen = MousePen
    /\ ev = "init"
    /\ obs = NoObs

\* the store begins to fail, and fails from then on
StorageChange ==
    /\ storageOk
    /\ storageOk' = FALSE
    /\ ev' = "storage"
    /\ UNCHANGED <<pages, activePageId, history, redoStack, objects,
                   currentObject, surface, overlay, dbPages, dbHistory, tasks,
                   Board, Ids, events, overlap, ctxReady, pen, obs>>

\* pushSnapshot's catch block after savePage was rejected: console.error
PersistRejected(i) ==
    /\ tasks[i].kind = "persist" /\ tasks[i].pc = "rejected"
    /\ Set([Cur EXCEPT !.tasks = RemoveAt(@, i)])
    /\ Internal("persistRejected")
    /\ UNCHANGED <<Board, Ids, obs>>

NextStorage ==
    \/ StorageChange
    \/ UndoStart
    \/ RedoStart
    \/ PointerDownEraser
    \/ CanvasPointerUp
    \/ \E q \in 1..MaxPageIds : SelectStart(q)
    \/ AddStart
    \/ DuplicateStart
    \/ DeleteStart
    \/ \E i \in DOMAIN tasks : PersistSaved(i)
    \/ \E i \in DOMAIN tasks : PersistCleanup(i)
    \/ \E i \in DOMAIN tasks : PersistRejected(i)
    \/ \E i \in DOMAIN tasks : UndoImg(i)
    \/ \E i \in DOMAIN tasks : RedoImg(i)
    \/ \E i \in DOMAIN tasks : TaskImgFail(i)
    \/ \E i \in DOMAIN tasks : SelectSaved(i)
    \/ \E i \in DOMAIN tasks : SelectImg(i)
    \/ \E i \in DOMAIN tasks : SelectHist(i)
    \/ \E i \in DOMAIN tasks : AddSaved(i)
    \/ \E i \in DOMAIN tasks : AddSavedNew(i)
    \/ \E i \in DOMAIN tasks : DeleteDone(i)
    \/ \E i \in DOMAIN tasks : DeleteImg(i)

SpecStorage == InitStorage /\ [][NextStorage]_vars


\* the in-memory state a persistence failure must not touch, and the handlers
\* that go on after it
SameInMemory(V, W) ==
    LET isHandler(t) == t.kind # "persist"
    IN  /\ <<V.history, V.redoStack, V.pages, V.activePageId, V.objects>>
               = <<W.history, W.redoStack, W.pages, W.activePageId, W.objects>>
        /\ SelectSeq(V.tasks, isHandler) = SelectSeq(W.tasks, isHandler)

C32_CascadeDelete ==
    [][ev' = "delete" =>
          /\ activePageId \notin DOMAIN dbPages'
          /\ GetHistory(dbHistory', activePageId) = <<>>
          /\ \A x \in (DOMAIN dbPages) \ {activePageId} :
                x \in DOMAIN dbPages' /\ dbPages'[x] = dbPages[x]
          /\ \A x \in (1..MaxPageIds) \ {activePageId} :
                GetHistory(dbHistory', x) = GetHistory(dbHistory, x)]_vars

\* a page was deleted whose history entries were older than entries of a page
\* that is still stored
C32_Witness ==
    /\ ev = "delete"
    /\ dbHistory # <<>>
    /\ Len(dbHistory) < MaxSeq(dbHistory)
    /\ Cardinality(DOMAIN dbPages) >= 1


\* ------------------------------------------- a page whose store is at the cap
\* The state after 49 eraser-object gestures on the first page followed by
\* Duplicate page: the first page's store holds 50 history entries with the
\* indexes 0 to 49, the undo stack is full.
InitBrim ==
    /\ pages = <<[id |-> 1, dataUrl |-> Png({}, 1)], [id |-> 2, dataUrl |-> Png({}, 2)]>>
    /\ activePageId = 2
    /\ history = [i \in 1..HistoryCap |->
                     IF i < HistoryCap THEN Png({}, 1) ELSE Png({}, 2)]
    /\ redoStack = <<>>
    /\ objects = <<>>
    /\ currentObject = NoObj
    /\ surface = {}
    /\ overlay = {}
    /\ boardDrawing = FALSE
    /\ shapeDrawing = FALSE
    /\ strokeDrawing = FALSE
    /\ activeTool \in Tools
    /\ pointer = FALSE
    /\ dbPages = [x \in {1, 2} |-> Png({}, x)]
    /\ dbHistory = [i \in 1..HistoryCap |->
                       [pageId |-> 1,
                        dataUrl |-> IF i = 1 THEN BlankHandle ELSE Png({}, 1),
                        index |-> i - 1, seq |-> i]] \o
                   <<[pageId |-> 2, dataUrl |-> Png({}, 2), index |-> HistoryCap - 1,
                      seq |-> HistoryCap + 1]>>
    /\ tasks = <<>>
    /\ nextPage = 3
    /\ nextObj = 1
    /\ events = MaxEvents - MaxFullEvents
    /\ overlap = FALSE
    /\ ctxReady = TRUE
    /\ storageOk = TRUE
    /\ pen = MousePen
    /\ ev = "init"
    /\ obs = NoObs

SpecBrim == InitBrim /\ [][Next]_vars

\* the entries the store holds for a page
EntriesOf(db, pid) == {db[i] : i \in {j \in DOMAIN db : db[j].pageId = pid}}

\* C33: when saveHistory(pageId, ..) completes with its cleanup, the store
\* holds at most 50 entries of that page, exactly 50 when it held that many
\* or more, none of the deleted entries has a higher index than a kept one,
\* and the entries of every other page are as before.
C33_StoreBound ==
    [][\A i \in DOMAIN tasks :
          (/\ tasks[i].kind = "persist" /\ tasks[i].pc = "put"
           /\ ev' = "persistDone" /\ tasks' = RemoveAt(tasks, i))
          => LET pid == tasks[i].pid
                 before == EntriesOf(dbHistory, pid)
                 after == EntriesOf(dbHistory', pid)
             IN  /\ Cardinality(after) <= MAX_HISTORY_PER_PAGE
                 /\ after \subseteq before
                 /\ Cardinality(before) >= MAX_HISTORY_PER_PAGE =>
                        Cardinality(after) = MAX_HISTORY_PER_PAGE
                 /\ \A e \in before \ after : \A k \in after : e.index <= k.index
                 /\ \A x \in (1..MaxPageIds) \ {pid} :
                        EntriesOf(dbHistory', x) = EntriesOf(dbHistory, x)]_vars

\* a saveHistory for the first page completed whose cleanup deleted the entry
\* of index 0 and kept 50 entries, the new one among them
C33_Witness ==
    /\ ev = "persistDone"
    /\ Cardinality(EntriesOf(dbHistory, 1)) = MAX_HISTORY_PER_PAGE
    /\ \A e \in EntriesOf(dbHistory, 1) : e.index > 0
    /\ \E k \in DOMAIN dbHistory :
          dbHistory[k].pageId = 1 /\ dbHistory[k].seq > HistoryCap + 1

\* ======================================================== pressure easing
\* utils/canvas.ts calculatePressureWidth.  Pressures and scales are counted
\* in hundredths (ScaleUnit = 1.0), widths in units of ScaleUnit^-3, so that
\* every product of the function is an exact integer.
ScaleUnit == 10 * 10

Max2(a, b) == IF a >= b THEN a ELSE b

\* the arguments the function is applied to: pressures below 0 and above 1
\* included, the scales of the settings and of the default arguments
PressureArgs == {0 - 50, 0 - 1, 0, 1, 25, 50, 75, 99, 100, 101, 150}

ScaleArgs == {0, 30, 50, 100}

calculatePressureWidth_Unclamped(baseWidth, pressure, minScale, maxScale) ==
    LET easedPressure == pressure * pressure
        scale == minScale * ScaleUnit * ScaleUnit
                     + easedPressure * (maxScale - minScale)
    IN  baseWidth * scale

calculatePressureWidth(baseWidth, pressure, minScale, maxScale) ==
    LET clampedPressure == Max2(0, Min2(ScaleUnit, pressure))
        easedPressure == clampedPressure * clampedPressure
        scale == minScale * ScaleUnit * ScaleUnit
                     + easedPressure * (maxScale - minScale)
    IN  baseWidth * scale

\* calculatePressureWidth(baseWidth, pressure, minScale, maxScale) called
ApiCalculatePressureWidth(baseWidth, pressure, minScale, maxScale) ==
    /\ obs' = [NoObs EXCEPT !.op = "calculatePressureWidth",
                            !.arg = <<baseWidth, pressure, minScale, maxScale>>,
                            !.result = calculatePressureWidth(baseWidth, pressure,
                                                              minScale, maxScale)]
    /\ Internal("apiWidth")
    /\ UNCHANGED <<pages, activePageId, history, redoStack, objects,
                   currentObject, surface, overlay, dbPages, dbHistory, tasks, Board, Ids>>

NextWidth ==
    \E baseWidth \in {0, 1, 5, 10, 20}, pressure \in PressureArgs,
       minScale \in ScaleArgs, maxScale \in ScaleArgs :
        /\ minScale <= maxScale
        /\ ApiCalculatePressureWidth(baseWidth, pressure, minScale, maxScale)

SpecWidth == InitPages /\ [][NextWidth]_vars

\* C34: calculatePressureWidth(base, p, min, max) is base * (min + c*c*(max -
\* min)) with c = p clamped to [0, 1]; the result lies between base*min and
\* base*max, does not decrease when p grows, is 3.0, 10.0 and 4.75 for base
\* 10, scales 0.3 and 1.0 and p = 0, 1 and 0.5, and a p below 0 (above 1)
\* gives the value of p = 0 (p = 1).
C34_PressureEasing ==
    obs.op = "calculatePressureWidth" =>
        LET base == obs.arg[1]
            p == obs.arg[2]
            min == obs.arg[3]
            max == obs.arg[4]
            c == IF p < 0 THEN 0 ELSE IF p > ScaleUnit THEN ScaleUnit ELSE p
            W(q) == calculatePressureWidth(base, q, min, max)
        IN  /\ obs.result = base * (min * ScaleUnit * ScaleUnit + c * c * (max - min))
            /\ base * min * ScaleUnit * ScaleUnit <= obs.result
            /\ obs.result <= base * max * ScaleUnit * ScaleUnit
            /\ \A q \in PressureArgs : q >= p => W(q) >= obs.result
            /\ (base = 10 /\ min = 30 /\ max = 100) =>
                   /\ p = 0 => obs.result = 3 * ScaleUnit * ScaleUnit * ScaleUnit
                   /\ p = 100 => obs.result = 10 * ScaleUnit * ScaleUnit * ScaleUnit
                   /\ p = 50 => 100 * obs.result = 475 * ScaleUnit * ScaleUnit * ScaleUnit
            /\ p < 0 => obs.result = W(0)
            /\ p > ScaleUnit => obs.result = W(ScaleUnit)

\* the function was applied to a pressure above 1 with the default scales
\* and gave the width of pressure 1
C34_Witness ==
    /\ obs.op = "calculatePressureWidth"
    /\ obs.arg = <<10, 150, 30, 100>>
    /\ obs.result = 10 * ScaleUnit * ScaleUnit * ScaleUnit

\* C35: the render pass draws every object of the canonical list: whenever
\* the list changes and the surface is re-rendered from it, every stroke of
\* the list, a stroke with exactly one point included, is on the surface.
C35_RenderDrawsAll ==
    [][(objects' # objects /\ ctxReady /\ IsList(objects')) =>
          \A i \in DOMAIN objects' :
              (objects'[i].type = "stroke" /\ Len(objects'[i].points) >= 1)
                  => objects'[i].id \in surface']_vars

\* C36: whenever the canonical object list changes, the surface is cleared
\* and re-rendered from the list, and that re-render emits a commit snapshot
\* (pushSnapshot runs and starts a save) exactly when no gesture is in
\* progress on the board, i.e. no pointer is down with a drawing flag of the
\* board or of its stroke or shape handlers set, and never while the board's
\* own drawing flag is set.
C36_RedrawCommits ==
    [][(objects' # objects /\ ctxReady /\ IsList(objects')) =>
          LET committed == PersistCount(tasks') > PersistCount(tasks)
              gesture == pointer' /\ (boardDrawing' \/ strokeDrawing' \/ shapeDrawing')
          IN  /\ surface' = Render(objects')
              /\ committed <=> ~gesture
              /\ boardDrawing' => ~committed]_vars

\* ===================================================== pressure smoothing
\* useCanvasDrawing with a pen: the pressure refs of the hook.  The surface
\* is the set of marks shown, so the line width that the smoothed pressure
\* gives to a segment is not part of the state; the refs are.
\* PointerEvent.pressure of the samples, 0 (no pressure reported) to 1
PenPressures == {0, PenUnit \div 20, PenUnit \div 5, PenUnit \div 2, PenUnit}

\* handlePointerDown: the refs after a pointer-down of the given type
PenAfterDown(type, pressure) ==
    LET initialPressure == IF type = "pen" THEN Max2(pressure, (3 * PenUnit) \div 10)
                           ELSE PenUnit \div 2
    IN  [pen EXCEPT !.last = initialPressure, !.count = 0, !.type = type]

\* handlePointerMove, one coalesced sample: the refs after the sample
PenAfterSample(raw) ==
    IF pen.enabled /\ pen.type = "pen" /\ raw > 0
    THEN LET pointCount == pen.count + 1
             rawPressure == Max2(PenUnit \div 10, Min2((95 * PenUnit) \div 100, raw))
             smoothingFactor == IF pointCount < 3 THEN 7 ELSE 3
             smoothedPressure == (pen.last * smoothingFactor
                                      + rawPressure * (10 - smoothingFactor)) \div 10
         IN  [pen EXCEPT !.count = pointCount, !.last = smoothedPressure]
    ELSE pen

\* pointer-down on the canvas with a stroke tool, by a mouse or a pen
PenDown(p, type, pressure) ==
    /\ UserOK
    /\ ~pointer
    /\ activeTool \in StrokeTools
    /\ ctxReady
    /\ nextObj <= MaxObjs
    /\ pointer' = TRUE
    /\ strokeDrawing' = TRUE
    /\ LET W1 == StartObject(Cur, "stroke", p, activeTool = "eraser-normal", nextObj)
       IN  Set([W1 EXCEPT !.surface = @ \cup {StrokeMark(W1)}])
    /\ nextObj' = nextObj + 1
    /\ pen' = PenAfterDown(type, pressure)
    /\ obs' = [GestureStart(<<p>>) EXCEPT !.arg = pressure]
    /\ events' = events + 1
    /\ ev' = "penDown"
    /\ UNCHANGED <<overlap, ctxReady, storageOk>>
    /\ UNCHANGED <<boardDrawing, shapeDrawing, activeTool, nextPage>>

\* pointer-move on the canvas during the stroke, one coalesced sample
PenMove(p, raw) ==
    /\ UserOK
    /\ activeTool \in StrokeTools
    /\ strokeDrawing /\ ctxReady
    /\ pen.count < MaxPenSamples
    /\ Set(MoveStep(Cur, p, 0))
    /\ pen' = PenAfterSample(raw)
    /\ obs' = [GestureMove(p) EXCEPT !.arg = raw]
    /\ events' = events + 1
    /\ ev' = "penMove"
    /\ UNCHANGED <<overlap, ctxReady, storageOk>>
    /\ UNCHANGED <<Board, Ids>>

\* pointer-up on the canvas: handlePointerUp of the hook
PenUp ==
    /\ UserOK
    /\ pointer
    /\ activeTool \in StrokeTools
    /\ Set(HookPointerUp(Cur, strokeDrawing, FALSE))
    /\ pointer' = FALSE
    /\ boardDrawing' = FALSE
    /\ strokeDrawing' = FALSE
    /\ pen' = IF strokeDrawing
              THEN [pen EXCEPT !.last = PenUnit \div 2, !.count = 0]
              ELSE pen
    /\ obs' = GestureEnd
    /\ events' = events + 1
    /\ ev' = "penUp"
    /\ UNCHANGED <<overlap, ctxReady, storageOk>>
    /\ UNCHANGED <<shapeDrawing, activeTool, Ids>>

\* a session with the brush; pressure sensitivity is on or off in the settings
InitPen ==
    /\ pages = <<[id |-> 1, dataUrl |-> NullUrl]>>
    /\ activePageId = 1
    /\ history = <<BlankHandle>>
    /\ redoStack = <<>>
    /\ objects = <<>>
    /\ currentObject = NoObj
    /\ surface = {}
    /\ overlay = {}
    /\ boardDrawing = FALSE
    /\ shapeDrawing = FALSE
    /\ strokeDrawing = FALSE
    /\ activeTool = "brush"
    /\ pointer = FALSE
    /\ dbPages = [x \in {1} |-> BlankHandle]
    /\ dbHistory = <<[pageId |-> 1, dataUrl |-> BlankHandle, index |-> 0, seq |-> 1]>>
    /\ tasks = <<>>
    /\ nextPage = 2
    /\ nextObj = 1
    /\ events = 0
    /\ overlap = FALSE
    /\ ctxReady = TRUE
    /\ storageOk = TRUE
    /\ \E enabled \in BOOLEAN : pen = [MousePen EXCEPT !.enabled = enabled]
    /\ ev = "init"
    /\ obs = NoObs

NextPen ==
    \/ \E p \in MainPoints, type \in {"mouse", "pen"}, pressure \in PenPressures :
          PenDown(p, type, pressure)
    \/ \E p \in MainPoints, raw \in PenPressures : PenMove(p, raw)
    \/ PenUp
    \/ \E i \in DOMAIN tasks : PersistSaved(i)
    \/ \E i \in DOMAIN tasks : PersistCleanup(i)

SpecPen == InitPen /\ [][NextPen]_vars

\* C37: within one pen stroke with pressure sensitivity enabled, previous
\* starts at the pointer-down pressure, the k-th sampled move sets it to
\* previous*f + raw*(1-f) with f = 0.7 for k = 1, 2, 3 and f = 0.3 for every
\* later k, and the sample counter is 0 after every pointer-down and
\* pointer-up.
C37_PressureSmoothing ==
    [][/\ (ev' = "penDown" /\ pen'.type = "pen" /\ pen.enabled) =>
              pen'.last = obs'.arg /\ pen'.count = 0
       /\ (ev' = "penMove" /\ pen.type = "pen" /\ pen.enabled /\ obs'.arg > 0) =>
              LET k == pen'.count
                  f == IF k <= 3 THEN 7 ELSE 3
              IN  /\ k = pen.count + 1
                  /\ 10 * pen'.last = pen.last * f + obs'.arg * (10 - f)
       /\ ev' = "penUp" => pen'.count = 0]_vars

\* ================================================ store and undo stack
\* a session of commits (brush strokes) and undos on one page
NextCommitUndo ==
    \/ UndoNoop
    \/ UndoStart
    \/ \E p \in MainPoints : PointerDownBrush(p)
    \/ CanvasPointerUp
    \/ \E i \in DOMAIN tasks : PersistSaved(i)
    \/ \E i \in DOMAIN tasks : PersistCleanup(i)
    \/ \E i \in DOMAIN tasks : UndoImg(i)
    \/ \E i \in DOMAIN tasks : TaskImgFail(i)

SpecCommitUndo == InitPages /\ [][NextCommitUndo]_vars

\* C38: after any sequence of commits and undos, once every save has
\* completed, the history entries of the active page in the store, ordered by
\* index, are the in-memory undo stack, so that a reload reproduces it.
C38_StoreMirrorsStack ==
    tasks = <<>> =>
        LET entries == GetHistory(dbHistory, activePageId)
        IN  [i \in DOMAIN entries |-> entries[i].dataUrl] = history

\* ========================================== overlapping undo() and redo()
\* a session on the first page after two commits, a pointer-down of the
\* object eraser and a completed undo(): the pointer is still down, the redo
\* stack holds the undone snapshot, and user events may arrive while a
\* handler is suspended
InitHistoryOverlap ==
    /\ pages = <<[id |-> 1, dataUrl |-> Png({1}, 1)]>>
    /\ activePageId = 1
    /\ history = <<BlankHandle, Png({1}, 1)>>
    /\ redoStack = <<Png({}, 1)>>
    /\ objects = <<>>
    /\ currentObject = NoObj
    /\ surface = {1}
    /\ overlay = {}
    /\ boardDrawing = TRUE
    /\ shapeDrawing = FALSE
    /\ strokeDrawing = FALSE
    /\ activeTool = "eraser-object"
    /\ pointer = TRUE
    /\ dbPages = [x \in {1} |-> Png({1}, 1)]
    /\ dbHistory = <<[pageId |-> 1, dataUrl |-> BlankHandle, index |-> 0, seq |-> 1],
                     [pageId |-> 1, dataUrl |-> Png({1}, 1), index |-> 1, seq |-> 2],
                     [pageId |-> 1, dataUrl |-> Png({}, 1), index |-> 2, seq |-> 3]>>
    /\ tasks = <<>>
    /\ nextPage = 2
    /\ nextObj = 2
    /\ events = 0
    /\ overlap = TRUE
    /\ ctxReady = TRUE
    /\ storageOk = TRUE
    /\ pen = MousePen
    /\ ev = "init"
    /\ obs = NoObs

NextHistoryOverlap ==
    \/ UndoNoop
    \/ UndoStart
    \/ RedoNoop
    \/ RedoStart
    \/ CanvasPointerUp
    \/ \E i \in DOMAIN tasks : PersistSaved(i)
    \/ \E i \in DOMAIN tasks : PersistCleanup(i)
    \/ \E i \in DOMAIN tasks : UndoImg(i)
    \/ \E i \in DOMAIN tasks : RedoImg(i)
    \/ \E i \in DOMAIN tasks : TaskImgFail(i)

SpecHistoryOverlap == InitHistoryOverlap /\ [][NextHistoryOverlap]_vars

\* C39: when undo() or redo() is invoked while an earlier undo() / redo() is
\* still awaiting its surface load, each invocation moves a distinct entry
\* (a redo does not take the entry that a pending redo has already taken, so
\* that no snapshot is appended to the undo stack twice), and the completion
\* of a redo that overlaps another pending undo / redo leaves the number of
\* entries of the two stacks together unchanged.
C39_NoDuplicateNoLoss ==
    [][/\ ev' = "redo" =>
              \A i \in DOMAIN tasks :
                  tasks[i].kind = "redo" =>
                      ~(Head(redoStack) = tasks[i].url /\ Tail(redoStack) = tasks[i].sq)
       /\ ev' = "redoDone" =>
              ((\E j \in DOMAIN tasks' : tasks'[j].kind \in {"undo", "redo"})
                  => Len(history') + Len(redoStack') = Len(history) + Len(redoStack))]_vars

\* C40: in every state, also while page operations overlap, the page list is
\* not empty and the active page id names a page of the list.
C40_ActivePageExists ==
    pages # <<>> /\ activePageId \in PageIds(pages)

================================================================
